---- MODULE Spec2Model ----
(***************************************************************************)
(* Model of the resumable page-processing pipeline of PDF-DocConverter:    *)
(* process_page_with_gemini (retry/backoff), the checkpoint file           *)
(* (save_progress / load_progress / clear_progress), the job ledger of     *)
(* models.py and the run block of show_converter_page (src/app.py 331-595).*)
(* Python lists are sequences; a 0-based index i is element i + 1.         *)
(***************************************************************************)
EXTENDS Integers, Sequences, FiniteSets, TLC

\* ------------------------------------------------------------ bounds
\* Largest page count of the PDF "a.pdf" (see PageCounts).
MaxPages == 11
\* Page count of the second PDF, "b.pdf".
SecondPdfPages == 2
\* Failed process_page_with_gemini results over a whole behaviour, in files
\* of more than SmallFile pages.
MaxFail == 3
\* Files of at most this many pages may fail on any of their pages.
SmallFile == 2
\* Presses of the Cancel button over a whole behaviour.
MaxCancels == 1
\* Run-fatal exceptions raised by the environment (rasterizer, file system).
MaxFaults == 1
\* Presses of the Start button over a whole behaviour.
MaxStarts == 1
\* Presses of the Resume button over a whole behaviour.
MaxResumes == 1
\* Largest total_pages of the dicts handed to a lone save_progress call.
RecordPages == 2
\* Lone save_progress calls over a whole behaviour.
MaxSaves == 2
\* Longest markdown_pages handed to a lone renderer call.
MaxRenderPages == 3
\* Presses of a Delete button of the history page over a whole behaviour.
MaxDeletes == 1

\* ------------------------------------------------------------ program constants
max_retries == 5
base_delay == 6
CheckpointEvery == 10

\* Python's None for an integer (job ids are autoincremented from 1, and the
\* code tests them with `if job_id:`).
NoJob == 0
\* Python's None / SQL NULL for a string.
Null == "<None>"
\* progress.json: whether it exists, and its text as a sequence of tokens.
File(text) == [exists |-> TRUE, text |-> text]
\* os.path.exists(PROGRESS_FILE) is false.
NoFile == [exists |-> FALSE, text |-> <<>>]

RECURSIVE Pow2(_)
Pow2(n) == IF n = 0 THEN 1 ELSE 2 * Pow2(n - 1)

\* ------------------------------------------------------------ exception text
\* str(e) is a sequence of words; `x in str(e)` is matching of a phrase (a
\* sequence of words) at some position.
Words ==
    { "429", "RESOURCE_EXHAUSTED", "Quota", "exceeded", "503", "UNAVAILABLE",
      "Internal", "error", "400", "INVALID_ARGUMENT" }

\* str.lower() on one word.
lower(w) ==
    CASE w = "RESOURCE_EXHAUSTED" -> "resource_exhausted"
      [] w = "Quota" -> "quota"
      [] w = "UNAVAILABLE" -> "unavailable"
      [] w = "Internal" -> "internal"
      [] w = "INVALID_ARGUMENT" -> "invalid_argument"
      [] OTHER -> w

lower_str(s) == [i \in 1..Len(s) |-> lower(s[i])]

\* phrase in s
contains(s, phrase) ==
    \E i \in 0..(Len(s) - Len(phrase)) :
        \A j \in 1..Len(phrase) : s[i + j] = phrase[j]

\* src/app.py:104
is_rate_limit(e) ==
    \/ contains(e, <<"429">>)
    \/ contains(lower_str(e), <<"resource", "exhausted">>)
    \/ contains(lower_str(e), <<"quota">>)

\* src/app.py:108
is_server_error(e) ==
    \/ contains(e, <<"500">>)
    \/ contains(e, <<"503">>)
    \/ contains(lower_str(e), <<"internal">>)
    \/ contains(lower_str(e), <<"unavailable">>)

\* ------------------------------------------------------------ the AI capability
\* One outcome of client.models.generate_content: a response with its text,
\* or an exception with its message.
Response(t) == [raises |-> FALSE, text |-> t, msg |-> <<>>]
Raises(m) == [raises |-> TRUE, text |-> Null, msg |-> m]

Messages ==
    { <<"429", "RESOURCE_EXHAUSTED">>, <<"Quota", "exceeded">>,
      <<"503", "UNAVAILABLE">>, <<"Internal", "error">>,
      <<"400", "INVALID_ARGUMENT">> }

ResponseTexts == { "# Title", "", Null }

AiOutcomes == {Response(t) : t \in ResponseTexts} \cup {Raises(m) : m \in Messages}

\* A mock of the capability: the outcome of the i-th call.
AiScripts == [1..max_retries -> AiOutcomes]

\* Python truthiness of response.text.
truthy(t) == t # "" /\ t # Null

\* A linear backoff.
backoff_delay_linear(attempt) == base_delay * (attempt + 1)

\* src/app.py:105 and 109
backoff_delay(attempt) == base_delay * Pow2(attempt)

\* One attempt fewer.
attempt_limit_short == max_retries - 1

\* range(max_retries)
attempt_limit == max_retries

\* Every exception is retried.
retries_after_any(e) == TRUE

\* src/app.py:101-114, the except branch of one attempt: TRUE when the loop
\* goes on to the next attempt after sleeping.
retries_after(e) == is_rate_limit(e) \/ is_server_error(e)

\* src/app.py:83-117. `script` is the mock's outcome per call; the result
\* carries the returned pair, the number of calls made and the sleeps observed.
RECURSIVE process_loop(_, _, _)
process_loop(script, attempt, delays) ==
    IF attempt >= attempt_limit
    THEN [text |-> "", success |-> FALSE, attempts |-> attempt, delays |-> delays]
    ELSE LET r == script[attempt + 1] IN
         IF ~r.raises
         THEN [text |-> IF truthy(r.text) THEN r.text ELSE "",
               success |-> TRUE, attempts |-> attempt + 1, delays |-> delays]
         ELSE IF retries_after(r.msg)
              THEN process_loop(script, attempt + 1,
                                Append(delays, backoff_delay(attempt)))
              ELSE [text |-> "", success |-> FALSE,
                    attempts |-> attempt + 1, delays |-> delays]

process_page_with_gemini(script) == process_loop(script, 0, <<>>)

\* ------------------------------------------------------------ the PDFs
FileNames == {"a.pdf", "b.pdf"}

\* The page counts "a.pdf" can have: those of a file that ends before the
\* first periodic checkpoint, and those that reach it.
PageCounts == (1..(SmallFile + 1)) \cup (CheckpointEvery..MaxPages)

\* What the user can have in the file uploader.
Uploads == { <<>>, <<"a.pdf">>, <<"b.pdf">>, <<"a.pdf", "b.pdf">> }

\* The multiselect of output formats: the default format and another one.
FormatChoices == { {"DOCX", "HTML"} }

ATexts == << "# a0", "", "# a2", "# a3", "# a4", "# a5", "# a6", "# a7",
             "# a8", "# a9", "# a10", "# a11", "# a12", "# a13" >>
BTexts == << "## b0", "## b1", "## b2", "## b3" >>

\* The text a correct OCR of page i (0-based) of the file gives; the second
\* page of a.pdf is a blank page.
PageText(f, i) == IF f = "a.pdf" THEN ATexts[i + 1] ELSE BTexts[i + 1]

\* Path(name).stem
stem(f) == IF f = "a.pdf" THEN "a" ELSE "b"

\* The behaviours of the AI capability a page can meet inside a run.
RateLimited == Raises(<<"429", "RESOURCE_EXHAUSTED">>)
Unavailable == Raises(<<"503", "UNAVAILABLE">>)
BadRequest == Raises(<<"400", "INVALID_ARGUMENT">>)

RunScripts(t) ==
    { [i \in 1..max_retries |-> Response(t)],
      [i \in 1..max_retries |-> IF i <= 2 THEN RateLimited ELSE Response(t)],
      [i \in 1..max_retries |-> RateLimited],
      [i \in 1..max_retries |-> IF i = 1 THEN Unavailable ELSE BadRequest],
      [i \in 1..max_retries |-> BadRequest] }

\* ------------------------------------------------------------ checkpoint file
\* The keys in the order the orchestrator's dict literals give them
\* (src/app.py:415-422 and 468-475).
KeyOrder ==
    << "total_pages", "completed_pages", "markdown_pages", "failed_pages",
       "filename", "job_id" >>
LBrace == <<"{">>
RBrace == <<"}">>

\* json.dump of a dict: "{", its members in insertion order, "}".
json_dump(data) ==
    LET keys == SelectSeq(KeyOrder, LAMBDA k : k \in DOMAIN data) IN
    <<LBrace>> \o [i \in 1..Len(keys) |-> <<keys[i], data[keys[i]]>>] \o <<RBrace>>

\* json.load accepts the text: one whole object.
parses(text) ==
    /\ Len(text) >= 2
    /\ text[1] = LBrace
    /\ text[Len(text)] = RBrace
    /\ \A i \in 2..(Len(text) - 1) : Len(text[i]) = 2

member(text, key) == text[CHOOSE i \in 2..(Len(text) - 1) : text[i][1] = key][2]

\* json.load of the file: the dict of the object's members.
json_load(file) ==
    [k \in {file.text[i][1] : i \in 2..(Len(file.text) - 1)} |-> member(file.text, k)]

\* The dict is merged into the object the file holds.
save_progress_merges(file, data) ==
    IF file.exists /\ parses(file.text)
    THEN File(json_dump([k \in DOMAIN json_load(file) \cup DOMAIN data |->
                            IF k \in DOMAIN data THEN data[k] ELSE json_load(file)[k]]))
    ELSE File(json_dump(data))

\* src/app.py:49-51: the file is opened with 'w' and written whole.
save_progress(file, data) == File(json_dump(data))

\* The file is read without the try: a text json.load rejects raises.
load_progress_unguarded(file) ==
    IF ~file.exists THEN <<>>
    ELSE IF parses(file.text) THEN <<json_load(file)>>
    ELSE <<[raised |-> "JSONDecodeError"]>>

\* src/app.py:53-60: <<>> is None, <<d>> is the dict d; the bare except
\* turns a text json.load rejects into None.
load_progress(file) ==
    IF ~file.exists THEN <<>>
    ELSE IF parses(file.text) THEN <<json_load(file)>>
    ELSE <<>>

\* dict.get(key, default)
get(d, key, default) == IF key \in DOMAIN d THEN d[key] ELSE default

\* src/app.py:62-64
clear_progress(file) == NoFile

\* The count saved is one page ahead of the forward pass.
progress_dict_ahead(total, completed, pages, failed, name, jid) ==
    [ total_pages |-> total, completed_pages |-> completed + 1,
      markdown_pages |-> pages, failed_pages |-> failed,
      filename |-> name, job_id |-> jid ]

\* The dict the orchestrator saves (src/app.py:415-422 and 468-475).
progress_dict(total, completed, pages, failed, name, jid) ==
    [ total_pages |-> total, completed_pages |-> completed,
      markdown_pages |-> pages, failed_pages |-> failed,
      filename |-> name, job_id |-> jid ]

\* ------------------------------------------------------------ job ledger
\* The table conversion_jobs: a function from the ids of the rows it holds to
\* their columns.
\* A job that is registered as pending.
new_job_pending(filename, total) ==
    [ filename |-> filename, total_pages |-> total, completed_pages |-> 0,
      failed_pages |-> 0, status |-> "pending", output_path |-> Null,
      output_paths |-> <<>>, error_message |-> Null ]

\* src/models.py:49-54 (the columns not given take their defaults).
new_job(filename, total) ==
    [ filename |-> filename, total_pages |-> total, completed_pages |-> 0,
      failed_pages |-> 0, status |-> "processing", output_path |-> Null,
      output_paths |-> <<>>, error_message |-> Null ]

\* src/models.py:14: the id the table gives a new row. It is one more than
\* the highest id ever issued where the database keeps a sequence, and one
\* more than the highest id of the rows present where it does not (the id of
\* a deleted last row is then issued again).
new_ids(js, seq) ==
    { seq + 1,
      IF DOMAIN js = {} THEN 1
      ELSE (CHOOSE m \in DOMAIN js : \A j \in DOMAIN js : j <= m) + 1 }

\* src/models.py:45-59, with the id the table issued.
create_job(js, id, filename, total) ==
    [j \in DOMAIN js \cup {id} |-> IF j = id THEN new_job(filename, total) ELSE js[j]]

\* src/models.py:145-153
delete_job(js, id) == [j \in DOMAIN js \ {id} |-> js[j]]

update_job_progress(js, id, completed, failed) ==
    IF id \in DOMAIN js
    THEN [js EXCEPT ![id].completed_pages = completed, ![id].failed_pages = failed]
    ELSE js

\* src/models.py:72-87: an empty all_output_paths leaves output_paths_json as
\* it was (`if all_output_paths:`).
complete_job(js, id, output_path, failed_count, all_output_paths) ==
    IF id \in DOMAIN js
    THEN [js EXCEPT ![id].status = "completed",
                    ![id].output_path = output_path,
                    ![id].output_paths = IF all_output_paths # <<>>
                                         THEN all_output_paths ELSE @,
                    ![id].failed_pages = failed_count]
    ELSE js

fail_job(js, id, error_message) ==
    IF id \in DOMAIN js
    THEN [js EXCEPT ![id].status = "failed", ![id].error_message = error_message]
    ELSE js

cancel_job(js, id, completed) ==
    IF id \in DOMAIN js
    THEN [js EXCEPT ![id].status = "cancelled", ![id].completed_pages = completed]
    ELSE js

\* The ledger call a step issues, as the ledger receives it.
LedgerCall(op, id, completed, failed, err) ==
    [ op |-> op, job_id |-> id, completed_pages |-> completed,
      failed_pages |-> failed, error_message |-> err ]
NoCall == LedgerCall("none", NoJob, 0, 0, Null)

\* ------------------------------------------------------------ observation
\* What a result adds to the record of the results seen for page i.
note(obs, i, ok) ==
    LET v == IF ok THEN "ok" ELSE "fail" IN
    IF (i + 1) \in DOMAIN obs
    THEN [obs EXCEPT ![i + 1] = IF @ = "none" \/ @ = v THEN v ELSE "mixed"]
    ELSE obs

\* The record kept between runs: of the pages the checkpoint on disk counts as
\* completed, and of nothing once the checkpoint is gone.
kept(obs, file) ==
    IF load_progress(file) = <<>> THEN <<>>
    ELSE [i \in DOMAIN obs |->
             IF i <= json_load(file).completed_pages THEN obs[i] ELSE "none"]

log_call(rc, i, ok) ==
    IF (i + 1) \in DOMAIN rc THEN [rc EXCEPT ![i + 1] = Append(@, ok)] ELSE rc

\* ------------------------------------------------------------ state
VARIABLES
    pdf_pages,          \* environment: the page count of each PDF
    processing,         \* st.session_state.processing
    cancel_requested,   \* st.session_state.cancel_requested
    completed_files,    \* st.session_state.completed_files
    progress_file,      \* the content of progress.json, or NoFile
    output_dir,         \* the files present under output/
    jobs,               \* the ledger table: the row of each job id
    id_seq,             \* the highest job id the table has issued
    pc,                 \* position of the run block of show_converter_page
    output_format,      \* locals of the run block
    files_to_process,
    file_idx,
    markdown_pages,
    failed_pages,
    total_pages,
    job_id,
    page_idx,
    images,             \* len(images)
    retry_failed,
    sweep_idx,          \* position of `for fail_idx in failed_pages`
    output_files,
    call,               \* the ledger call issued by the last step
    run_calls,          \* per page, the results of the OCR calls of this file in this run
    observed,           \* per page, the results seen since the job was created
    used,               \* how much of each bound the behaviour has used
    unreached,          \* the files a run-fatal exception kept the last run from reaching
    script,             \* the mock handed to a lone process_page_with_gemini call
    proc,               \* the result of that call, <<>> before it
    saved,              \* the dicts handed to lone save_progress calls, in order
    intact,             \* progress.json is as the last save_progress call left it
    loaded,             \* the result of a lone load_progress call, <<>> before it
    md_input,           \* the markdown_pages handed to lone renderer calls
    rendered            \* what the renderers returned for them, <<>> before the calls

session == <<processing, cancel_requested, completed_files>>
disk == <<progress_file, output_dir>>
locals == <<output_format, files_to_process, file_idx, markdown_pages, failed_pages,
            total_pages, job_id, page_idx, images, retry_failed, sweep_idx, output_files>>
history == <<run_calls, observed, used>>
renders == <<md_input, rendered>>
lone == <<script, proc, saved, intact, loaded, renders>>
vars == <<pdf_pages, session, disk, jobs, id_seq, pc, locals, call, history, unreached, lone>>

\* The block's locals do not outlive it.
NoLocals ==
    /\ output_format' = {}
    /\ files_to_process' = <<>>
    /\ file_idx' = 0
    /\ markdown_pages' = <<>>
    /\ failed_pages' = <<>>
    /\ total_pages' = 0
    /\ job_id' = NoJob
    /\ page_idx' = 0
    /\ images' = 0
    /\ retry_failed' = <<>>
    /\ sweep_idx' = 0
    /\ output_files' = <<>>
    /\ run_calls' = <<>>
    /\ observed' = kept(observed, progress_file)

OrchestratorInit ==
    /\ processing = FALSE
    /\ cancel_requested = FALSE
    /\ completed_files = <<>>
    /\ progress_file = NoFile
    /\ output_dir = {}
    /\ jobs = <<>>
    /\ id_seq = 0
    /\ pc = "idle"
    /\ output_format = {}
    /\ files_to_process = <<>>
    /\ file_idx = 0
    /\ markdown_pages = <<>>
    /\ failed_pages = <<>>
    /\ total_pages = 0
    /\ job_id = NoJob
    /\ page_idx = 0
    /\ images = 0
    /\ retry_failed = <<>>
    /\ sweep_idx = 0
    /\ output_files = <<>>
    /\ call = NoCall
    /\ unreached = <<>>
    /\ run_calls = <<>>
    /\ observed = <<>>
    /\ used = [fail |-> 0, cancel |-> 0, fault |-> 0, start |-> 0, resume |-> 0,
               delete |-> 0]

NoCheckpointCalls == saved = <<>> /\ intact = TRUE /\ loaded = <<>>
NoRenderCalls == md_input = <<>> /\ rendered = <<>>

Init ==
    /\ pdf_pages \in { [f \in FileNames |-> IF f = "a.pdf" THEN n ELSE SecondPdfPages] :
                       n \in PageCounts }
    /\ OrchestratorInit
    /\ script = <<>>
    /\ proc = <<>>
    /\ NoCheckpointCalls
    /\ NoRenderCalls

Spend(what) == [used EXCEPT ![what] = @ + 1]

\* A failed page counts against MaxFail in a file of more than SmallFile
\* pages; a smaller file may fail on every page in both passes.
Charged(r) == ~r.success /\ total_pages > SmallFile

\* The file and the resume data of the current iteration of the file loop.
uploaded_file == files_to_process[file_idx + 1].file
resume_data == files_to_process[file_idx + 1].resume_data

\* files_to_process[file_idx + 1:], the files after the current one.
later_files ==
    [i \in 1..(Len(files_to_process) - file_idx - 1) |->
        files_to_process[file_idx + 1 + i].file]

\* ------------------------------------------------------------ the run block
\* The handler without the finally clause: the flag stays up.
ExceptKeepsFlag(err) ==
    /\ jobs' = IF job_id # NoJob THEN fail_job(jobs, job_id, err) ELSE jobs
    /\ call' = IF job_id # NoJob THEN LedgerCall("fail_job", job_id, 0, 0, err) ELSE NoCall
    /\ processing' = processing
    /\ pc' = "idle"
    /\ NoLocals
    /\ unreached' = later_files

\* The handler marks the job failed and the file loop goes on with the
\* next file.
ExceptSkipsFile(err) ==
    /\ jobs' = IF job_id # NoJob THEN fail_job(jobs, job_id, err) ELSE jobs
    /\ call' = IF job_id # NoJob THEN LedgerCall("fail_job", job_id, 0, 0, err) ELSE NoCall
    /\ processing' = processing
    /\ pc' = "file_loop"
    /\ file_idx' = file_idx + 1
    /\ unreached' = later_files
    /\ UNCHANGED <<output_format, files_to_process, markdown_pages, failed_pages,
                   total_pages, job_id, page_idx, images, retry_failed, sweep_idx,
                   output_files, run_calls, observed>>

\* src/app.py:583-595: except Exception, then finally.
Except(err) ==
    /\ jobs' = IF job_id # NoJob THEN fail_job(jobs, job_id, err) ELSE jobs
    /\ call' = IF job_id # NoJob THEN LedgerCall("fail_job", job_id, 0, 0, err) ELSE NoCall
    /\ processing' = FALSE
    /\ pc' = "idle"
    /\ NoLocals
    /\ unreached' = later_files

\* src/app.py:331-361 with start_button. Without an uploaded file the block
\* reports it and ends (st.rerun() is no Exception; finally runs).
Start(files, formats) ==
    /\ pc = "idle"
    /\ ~processing
    /\ used.start < MaxStarts
    /\ used' = Spend("start")
    /\ cancel_requested' = FALSE
    /\ completed_files' = <<>>
    /\ call' = NoCall
    /\ IF files = <<>>
       THEN /\ processing' = FALSE
            /\ pc' = "idle"
            /\ NoLocals
       ELSE /\ processing' = TRUE
            /\ pc' = "file_loop"
            /\ output_format' = formats
            /\ files_to_process' = [i \in 1..Len(files) |-> [file |-> files[i], resume_data |-> <<>>]]
            /\ file_idx' = 0
            /\ job_id' = NoJob
            /\ UNCHANGED <<markdown_pages, failed_pages, total_pages, page_idx, images,
                           retry_failed, sweep_idx, output_files, run_calls, observed>>
    /\ unreached' = <<>>
    /\ UNCHANGED <<pdf_pages, id_seq, disk, jobs, lone>>

\* src/app.py:278, 307-308, 331-353 with resume_button: enabled only with a
\* saved progress; the first uploaded file is resumed.
Resume(files, formats) ==
    /\ pc = "idle"
    /\ ~processing
    /\ load_progress(progress_file) # <<>>
    /\ used.resume < MaxResumes
    /\ used' = Spend("resume")
    /\ cancel_requested' = FALSE
    /\ completed_files' = <<>>
    /\ call' = NoCall
    /\ IF files = <<>>
       THEN /\ processing' = FALSE
            /\ pc' = "idle"
            /\ NoLocals
       ELSE /\ processing' = TRUE
            /\ pc' = "file_loop"
            /\ output_format' = formats
            /\ files_to_process' = <<[file |-> files[1], resume_data |-> load_progress(progress_file)]>>
            /\ file_idx' = 0
            /\ job_id' = NoJob
            /\ UNCHANGED <<markdown_pages, failed_pages, total_pages, page_idx, images,
                           retry_failed, sweep_idx, output_files, run_calls, observed>>
    /\ unreached' = <<>>
    /\ UNCHANGED <<pdf_pages, id_seq, disk, jobs, lone>>

\* src/app.py:311-312: the Cancel button, enabled while processing.
Cancel ==
    /\ processing
    /\ ~cancel_requested
    /\ used.cancel < MaxCancels
    /\ used' = Spend("cancel")
    /\ cancel_requested' = TRUE
    /\ call' = NoCall
    /\ UNCHANGED <<pdf_pages, id_seq, unreached, processing, completed_files, disk, jobs, pc, locals,
                   run_calls, observed, lone>>

\* src/app.py:363-365 and 579-595: the file loop is exhausted or broken by the
\* cancel flag; the block ends through finally.
FileLoopExit ==
    /\ pc = "file_loop"
    /\ file_idx >= Len(files_to_process) \/ cancel_requested
    /\ processing' = FALSE
    /\ pc' = "idle"
    /\ NoLocals
    /\ call' = NoCall
    /\ unreached' = <<>>
    /\ UNCHANGED <<pdf_pages, id_seq, cancel_requested, completed_files, disk, jobs, used, lone>>

\* The forward pass restarts one page after the checkpoint's count.
resume_locals_skip(data) ==
    [ markdown_pages |-> data.markdown_pages,
      failed_pages |-> data.failed_pages,
      start_page |-> data.completed_pages + 1,
      total_pages |-> data.total_pages,
      job_id |-> data.job_id ]

\* src/app.py:374-378
resume_locals(data) ==
    [ markdown_pages |-> get(data, "markdown_pages", <<>>),
      failed_pages |-> get(data, "failed_pages", <<>>),
      start_page |-> get(data, "completed_pages", 0),
      total_pages |-> get(data, "total_pages", 0),
      job_id |-> get(data, "job_id", NoJob) ]

\* src/app.py:373-381 and 424: the locals come from the checkpoint, the
\* uploaded file is rasterized.
ResumeInit ==
    /\ pc = "file_loop"
    /\ file_idx < Len(files_to_process) /\ ~cancel_requested
    /\ resume_data # <<>>
    /\ LET got == resume_locals(resume_data[1]) IN
       /\ markdown_pages' = got.markdown_pages
       /\ failed_pages' = got.failed_pages
       /\ page_idx' = got.start_page
       /\ total_pages' = got.total_pages
       /\ job_id' = got.job_id
    /\ images' = pdf_pages[uploaded_file]
    /\ run_calls' = [i \in 1..get(resume_data[1], "total_pages", 0) |-> <<>>]
    /\ pc' = "page_loop"
    /\ call' = NoCall
    /\ UNCHANGED <<pdf_pages, id_seq, unreached, session, disk, jobs, output_format, files_to_process,
                   file_idx, retry_failed, sweep_idx, output_files, observed, used, lone>>

\* src/app.py:424 raising on a resumed file (an unreadable upload).
ResumeRasterizeFails ==
    /\ pc = "file_loop"
    /\ file_idx < Len(files_to_process) /\ ~cancel_requested
    /\ resume_data # <<>>
    /\ used.fault < MaxFaults
    /\ used' = Spend("fault")
    \* job_id was assigned at 378, before the call at 424
    /\ LET jid == get(resume_data[1], "job_id", NoJob) IN
       /\ jobs' = IF jid # NoJob THEN fail_job(jobs, jid, "Unable to get page count") ELSE jobs
       /\ call' = IF jid # NoJob
                  THEN LedgerCall("fail_job", jid, 0, 0, "Unable to get page count")
                  ELSE NoCall
    /\ processing' = FALSE
    /\ pc' = "idle"
    /\ NoLocals
    /\ unreached' = later_files
    /\ UNCHANGED <<pdf_pages, id_seq, cancel_requested, completed_files, disk, lone>>

\* src/app.py:383-424: a fresh file is rasterized, its job created and the
\* initial checkpoint written.
FreshInit ==
    /\ pc = "file_loop"
    /\ file_idx < Len(files_to_process) /\ ~cancel_requested
    /\ resume_data = <<>>
    /\ LET n == pdf_pages[uploaded_file]
           pages == [i \in 1..n |-> ""]
       IN /\ total_pages' = n
          /\ images' = n
          /\ markdown_pages' = pages
          /\ failed_pages' = <<>>
          /\ page_idx' = 0
          /\ run_calls' = [i \in 1..n |-> <<>>]
          /\ observed' = [i \in 1..n |-> "none"]
          /\ \E jid \in new_ids(jobs, id_seq) :
             /\ jobs' = create_job(jobs, jid, uploaded_file, n)
             /\ id_seq' = IF jid > id_seq THEN jid ELSE id_seq
             /\ job_id' = jid
             /\ call' = LedgerCall("create_job", jid, 0, 0, Null)
             /\ progress_file' = save_progress(progress_file,
                                     progress_dict(n, 0, pages, <<>>, uploaded_file, jid))
    /\ pc' = "page_loop"
    /\ UNCHANGED <<pdf_pages, unreached, session, output_dir, output_format, files_to_process,
                   file_idx, retry_failed, sweep_idx, output_files, used, lone>>

\* src/app.py:386 raising (a PDF the rasterizer cannot read): job_id still
\* holds what the previous iteration left in it.
FreshRasterizeFails ==
    /\ pc = "file_loop"
    /\ file_idx < Len(files_to_process) /\ ~cancel_requested
    /\ resume_data = <<>>
    /\ used.fault < MaxFaults
    /\ used' = Spend("fault")
    /\ Except("Unable to get page count")
    /\ UNCHANGED <<pdf_pages, id_seq, cancel_requested, completed_files, disk, lone>>

\* The run goes on without a job: the checkpoint is written and the pages
\* are processed untracked.
FreshLedgerUnavailableProceeds ==
    /\ pc = "file_loop"
    /\ file_idx < Len(files_to_process) /\ ~cancel_requested
    /\ resume_data = <<>>
    /\ used.fault < MaxFaults
    /\ used' = Spend("fault")
    /\ LET n == pdf_pages[uploaded_file]
           pages == [i \in 1..n |-> ""]
       IN /\ total_pages' = n
          /\ images' = n
          /\ markdown_pages' = pages
          /\ failed_pages' = <<>>
          /\ page_idx' = 0
          /\ progress_file' = save_progress(progress_file,
                                  progress_dict(n, 0, pages, <<>>, uploaded_file, NoJob))
          /\ run_calls' = [i \in 1..n |-> <<>>]
          /\ observed' = [i \in 1..n |-> "none"]
    /\ job_id' = NoJob
    /\ call' = LedgerCall("create_job", NoJob, 0, 0, Null)
    /\ pc' = "page_loop"
    /\ UNCHANGED <<pdf_pages, id_seq, unreached, session, output_dir, jobs, output_format, files_to_process,
                   file_idx, retry_failed, sweep_idx, output_files, lone>>

\* src/app.py:386-413 with create_job returning None (src/models.py:46-48, no
\* session): the flag is reset and st.rerun() ends the block through finally
\* (it raises no Exception, and job_id is None: no fail_job).
FreshLedgerUnavailable ==
    /\ pc = "file_loop"
    /\ file_idx < Len(files_to_process) /\ ~cancel_requested
    /\ resume_data = <<>>
    /\ used.fault < MaxFaults
    /\ used' = Spend("fault")
    /\ jobs' = jobs
    /\ call' = LedgerCall("create_job", NoJob, 0, 0, Null)
    /\ processing' = FALSE
    /\ pc' = "idle"
    /\ NoLocals
    /\ unreached' = <<>>
    /\ UNCHANGED <<pdf_pages, id_seq, cancel_requested, completed_files, disk, lone>>

\* src/app.py:374-375: on a resumed file markdown_pages and failed_pages are
\* the very lists of resume_data, so what lines 457, 463 and 498 store in
\* them shows in entry k of files_to_process; a fresh file has its own lists.
written_through(files, k, pages, failed) ==
    IF files[k + 1].resume_data = <<>> THEN files
    ELSE LET data == files[k + 1].resume_data[1] IN
         [files EXCEPT ![k + 1].resume_data =
             << [key \in DOMAIN data |->
                    CASE key = "markdown_pages" -> pages
                      [] key = "failed_pages" -> failed
                      [] OTHER -> data[key]] >>]

\* src/app.py:457 and 498: markdown_pages[idx] = text
store_page(pages, idx, text) == [pages EXCEPT ![idx + 1] = text]

\* The failed page is not recorded.
queue_for_retry_dropped(failed, idx) == failed

\* The failed page is recorded twice.
queue_for_retry_twice(failed, idx) == Append(Append(failed, idx), idx)

\* The page after the failed one is recorded.
queue_for_retry_next(failed, idx) == Append(failed, idx + 1)

\* src/app.py:463: failed_pages.append(page_idx)
queue_for_retry(failed, idx) == Append(failed, idx)

\* A page counts as processed only when its text is not blank.
page_succeeded_nonblank(r) == r.success /\ truthy(r.text)

\* src/app.py:456 and 497: `if success:`
page_succeeded(r) == r.success

\* The checkpoint is due after the pages of index 0, 10, 20, ...
checkpoint_due_from_zero(idx) == idx % CheckpointEvery = 0

\* src/app.py:467
checkpoint_due(idx) == (idx + 1) % CheckpointEvery = 0

\* src/app.py:430-436: the head of the forward loop, with the cancel check.
PageLoopHead ==
    /\ pc = "page_loop"
    /\ IF page_idx >= total_pages
       THEN /\ pc' = "after_forward"
            /\ call' = NoCall
            /\ jobs' = jobs
       ELSE IF cancel_requested
            THEN /\ pc' = "after_forward"
                 /\ jobs' = IF job_id # NoJob THEN cancel_job(jobs, job_id, page_idx) ELSE jobs
                 /\ call' = IF job_id # NoJob
                            THEN LedgerCall("cancel_job", job_id, page_idx, 0, Null)
                            ELSE NoCall
            ELSE /\ pc' = "ocr"
                 /\ call' = NoCall
                 /\ jobs' = jobs
    /\ UNCHANGED <<pdf_pages, id_seq, unreached, session, disk, locals, history, lone>>

\* src/app.py:438-475: one page of the forward pass, with the periodic
\* checkpoint.
ForwardPage ==
    /\ pc = "ocr"
    /\ page_idx < images
    /\ \E s \in RunScripts(PageText(uploaded_file, page_idx)) :
       LET r == process_page_with_gemini(s)
           pages == IF page_succeeded(r) THEN store_page(markdown_pages, page_idx, r.text)
                    ELSE markdown_pages
           failed == IF page_succeeded(r) THEN failed_pages
                     ELSE queue_for_retry(failed_pages, page_idx)
           due == checkpoint_due(page_idx)
       IN /\ ~Charged(r) \/ used.fail < MaxFail
          /\ used' = IF Charged(r) THEN Spend("fail") ELSE used
          /\ markdown_pages' = pages
          /\ failed_pages' = failed
          /\ files_to_process' = written_through(files_to_process, file_idx, pages, failed)
          /\ progress_file' =
                IF due
                THEN save_progress(progress_file,
                         progress_dict(total_pages, page_idx + 1, pages, failed,
                                       uploaded_file, job_id))
                ELSE progress_file
          /\ pc' = IF due THEN "push" ELSE "page_loop"
          /\ run_calls' = log_call(run_calls, page_idx, r.success)
          /\ observed' = note(observed, page_idx, r.success)
    /\ page_idx' = page_idx + 1
    /\ call' = NoCall
    /\ UNCHANGED <<pdf_pages, id_seq, unreached, session, output_dir, jobs, output_format,
                   file_idx, total_pages, job_id, images, retry_failed, sweep_idx,
                   output_files, lone>>

\* src/app.py:476-483: the ledger update that follows a periodic checkpoint
\* (page_idx already counts the page just processed: it is the code's
\* page_idx + 1).
PushProgress ==
    /\ pc = "push"
    /\ jobs' = IF job_id # NoJob
               THEN update_job_progress(jobs, job_id, page_idx, Len(failed_pages))
               ELSE jobs
    /\ call' = IF job_id # NoJob
               THEN LedgerCall("update_job_progress", job_id, page_idx,
                               Len(failed_pages), Null)
               ELSE NoCall
    /\ pc' = "page_loop"
    /\ UNCHANGED <<pdf_pages, id_seq, unreached, session, disk, locals, history, lone>>

\* src/app.py:452 raising IndexError: the resumed checkpoint has more pages
\* than the uploaded file.
ForwardIndexError ==
    /\ pc = "ocr"
    /\ page_idx >= images
    /\ Except("list index out of range")
    /\ UNCHANGED <<pdf_pages, id_seq, cancel_requested, completed_files, disk, used, lone>>

\* The retry sweep is skipped.
AfterForwardSkipsSweep ==
    /\ pc = "after_forward"
    /\ pc' = "output"
    /\ call' = NoCall
    /\ UNCHANGED <<pdf_pages, id_seq, unreached, session, disk, jobs, locals, history, lone>>

\* src/app.py:485-489
AfterForward ==
    /\ pc = "after_forward"
    /\ IF ~cancel_requested /\ failed_pages # <<>>
       THEN /\ pc' = "sweep"
            /\ retry_failed' = <<>>
            /\ sweep_idx' = 0
       ELSE /\ pc' = "output"
            /\ UNCHANGED <<retry_failed, sweep_idx>>
    /\ call' = NoCall
    /\ UNCHANGED <<pdf_pages, id_seq, unreached, session, disk, jobs, output_format, files_to_process,
                   file_idx, markdown_pages, failed_pages, total_pages, job_id, page_idx,
                   images, output_files, history, lone>>

\* src/app.py:490-492 and 506-510: the head of the retry sweep; when the loop
\* ends or is broken, failed_pages = retry_failed.
SweepHead ==
    /\ pc = "sweep"
    /\ IF sweep_idx >= Len(failed_pages) \/ cancel_requested
       THEN /\ failed_pages' = retry_failed
            /\ pc' = "output"
       ELSE /\ pc' = "sweep_ocr"
            /\ UNCHANGED failed_pages
    /\ call' = NoCall
    /\ UNCHANGED <<pdf_pages, id_seq, unreached, session, disk, jobs, output_format, files_to_process,
                   file_idx, markdown_pages, total_pages, job_id, page_idx, images,
                   retry_failed, sweep_idx, output_files, history, lone>>

\* src/app.py:494-504: one entry of the retry sweep.
SweepPage ==
    /\ pc = "sweep_ocr"
    /\ failed_pages[sweep_idx + 1] < images
    /\ \E s \in RunScripts(PageText(uploaded_file, failed_pages[sweep_idx + 1])) :
       LET fail_idx == failed_pages[sweep_idx + 1]
           r == process_page_with_gemini(s)
           pages == IF page_succeeded(r) THEN store_page(markdown_pages, fail_idx, r.text)
                    ELSE markdown_pages
       IN /\ ~Charged(r) \/ used.fail < MaxFail
          /\ used' = IF Charged(r) THEN Spend("fail") ELSE used
          /\ markdown_pages' = pages
          /\ files_to_process' =
                written_through(files_to_process, file_idx, pages, failed_pages)
          /\ retry_failed' = IF page_succeeded(r) THEN retry_failed
                             ELSE queue_for_retry(retry_failed, fail_idx)
          /\ run_calls' = log_call(run_calls, fail_idx, r.success)
          /\ observed' = note(observed, fail_idx, r.success)
    /\ sweep_idx' = sweep_idx + 1
    /\ pc' = "sweep"
    /\ call' = NoCall
    /\ UNCHANGED <<pdf_pages, id_seq, unreached, session, disk, jobs, output_format,
                   file_idx, failed_pages, total_pages, job_id, page_idx, images,
                   output_files, lone>>

\* src/app.py:494 raising IndexError.
SweepIndexError ==
    /\ pc = "sweep_ocr"
    /\ failed_pages[sweep_idx + 1] >= images
    /\ Except("list index out of range")
    /\ UNCHANGED <<pdf_pages, id_seq, cancel_requested, completed_files, disk, used, lone>>

\* The outputs are produced whatever the cancel flag says.
OutputGateIgnoresCancel ==
    /\ pc = "output"
    /\ pc' = "write"
    /\ call' = NoCall
    /\ UNCHANGED <<pdf_pages, id_seq, unreached, session, disk, jobs, locals, history, lone>>

\* The outputs are withheld while failed pages remain.
OutputGateBlocksOnFailure ==
    /\ pc = "output"
    /\ IF ~cancel_requested /\ failed_pages = <<>>
       THEN /\ pc' = "write"
            /\ UNCHANGED file_idx
       ELSE /\ pc' = "file_loop"
            /\ file_idx' = file_idx + 1
    /\ call' = NoCall
    /\ UNCHANGED <<pdf_pages, id_seq, unreached, session, disk, jobs, output_format, files_to_process,
                   markdown_pages, failed_pages, total_pages, job_id, page_idx, images,
                   retry_failed, sweep_idx, output_files, history, lone>>

\* src/app.py:512: outputs only when not cancelled; otherwise the next file.
OutputGate ==
    /\ pc = "output"
    /\ IF ~cancel_requested
       THEN /\ pc' = "write"
            /\ UNCHANGED file_idx
       ELSE /\ pc' = "file_loop"
            /\ file_idx' = file_idx + 1
    /\ call' = NoCall
    /\ UNCHANGED <<pdf_pages, id_seq, unreached, session, disk, jobs, output_format, files_to_process,
                   markdown_pages, failed_pages, total_pages, job_id, page_idx, images,
                   retry_failed, sweep_idx, output_files, history, lone>>

FormatOrder == <<"DOCX", "TXT", "HTML">>
ext(fmt) == CASE fmt = "DOCX" -> "docx" [] fmt = "TXT" -> "txt" [] OTHER -> "html"

\* src/app.py:523-560: the output files of the requested formats, in the
\* order the code writes them (the timestamp of the name is left out).
requested_outputs(base, formats) ==
    LET wanted == SelectSeq(FormatOrder, LAMBDA f : f \in formats) IN
    [i \in 1..Len(wanted) |-> [name |-> base, ext |-> ext(wanted[i])]]

\* src/app.py:532, 545-546, 559-560
main_output(outs) == outs[1]

\* src/app.py:516-562: every requested output is written.
WriteOutputs ==
    /\ pc = "write"
    /\ LET outs == requested_outputs(stem(uploaded_file), output_format) IN
       /\ output_dir' = output_dir \cup {outs[i] : i \in 1..Len(outs)}
       /\ output_files' = outs
       /\ completed_files' = completed_files \o outs
    /\ pc' = "complete"
    /\ call' = NoCall
    /\ UNCHANGED <<pdf_pages, id_seq, unreached, processing, cancel_requested, progress_file, jobs,
                   output_format, files_to_process, file_idx, markdown_pages,
                   failed_pages, total_pages, job_id, page_idx, images, retry_failed,
                   sweep_idx, history, lone>>

\* src/app.py:526-553 raising (an I/O error) after n files were written. The
\* file whose writing raised is left in the directory, empty or cut short,
\* when the error came after it was created (f.write at 539 and 553, the
\* close of the with block, doc.save), and is absent when the error came
\* before (open at 538 and 552, doc.save).
WriteOutputsFails(n, left) ==
    /\ pc = "write"
    /\ used.fault < MaxFaults
    /\ used' = Spend("fault")
    /\ LET outs == requested_outputs(stem(uploaded_file), output_format) IN
       /\ n < Len(outs)
       /\ output_dir' = output_dir \cup
                          {outs[i] : i \in 1..(IF left THEN n + 1 ELSE n)}
    /\ Except("No space left on device")
    /\ UNCHANGED <<pdf_pages, id_seq, cancel_requested, completed_files, progress_file, lone>>

\* The checkpoint is cleared before the completed update is pushed.
CompleteJobClearsFirst ==
    /\ pc = "complete"
    /\ progress_file' = clear_progress(progress_file)
    /\ jobs' = jobs
    /\ call' = NoCall
    /\ pc' = "clear"
    /\ UNCHANGED <<pdf_pages, id_seq, unreached, session, output_dir, locals, history, lone>>

\* src/app.py:564-565
CompleteJob ==
    /\ pc = "complete"
    /\ jobs' = IF job_id # NoJob
               THEN complete_job(jobs, job_id, main_output(output_files),
                                 Len(failed_pages), output_files)
               ELSE jobs
    /\ call' = IF job_id # NoJob
               THEN LedgerCall("complete_job", job_id, 0, Len(failed_pages), Null)
               ELSE NoCall
    /\ pc' = "clear"
    /\ UNCHANGED <<pdf_pages, id_seq, unreached, session, disk, locals, history, lone>>

\* src/app.py:567-577, then the next iteration of the file loop.
ClearProgress ==
    /\ pc = "clear"
    /\ progress_file' = clear_progress(progress_file)
    /\ pc' = "file_loop"
    /\ file_idx' = file_idx + 1
    /\ call' = NoCall
    /\ observed' = kept(observed, NoFile)
    /\ UNCHANGED <<pdf_pages, id_seq, unreached, session, output_dir, jobs, output_format, files_to_process,
                   markdown_pages, failed_pages, total_pages, job_id, page_idx, images,
                   retry_failed, sweep_idx, output_files, run_calls, used, lone>>

\* src/app.py:689-691 and src/models.py:145-153: the Delete button the
\* history page shows for each job of the table. The page is served to any
\* session, whatever a run block is doing in another.
DeleteJob(id) ==
    /\ used.delete < MaxDeletes
    /\ used' = Spend("delete")
    /\ jobs' = delete_job(jobs, id)
    /\ call' = LedgerCall("delete_job", id, 0, 0, Null)
    /\ UNCHANGED <<pdf_pages, id_seq, unreached, session, disk, pc, locals, run_calls,
                   observed, lone>>

Next ==
    \/ \E files \in Uploads, formats \in FormatChoices : Start(files, formats)
    \/ \E files \in Uploads, formats \in FormatChoices : Resume(files, formats)
    \/ Cancel
    \/ \E id \in DOMAIN jobs : DeleteJob(id)
    \/ FileLoopExit
    \/ ResumeInit
    \/ ResumeRasterizeFails
    \/ FreshInit
    \/ FreshRasterizeFails
    \/ FreshLedgerUnavailable
    \/ PageLoopHead
    \/ ForwardPage
    \/ PushProgress
    \/ ForwardIndexError
    \/ AfterForward
    \/ SweepHead
    \/ SweepPage
    \/ SweepIndexError
    \/ OutputGate
    \/ WriteOutputs
    \/ \E n \in 0..2, left \in BOOLEAN : WriteOutputsFails(n, left)
    \/ CompleteJob
    \/ ClearProgress

Spec == Init /\ [][Next]_vars

\* ------------------------------------------------------------ renderers
\* A str is the sequence of its characters.
\* \s of the patterns, and the characters str.strip() removes.
Whitespace == {" ", "\n", "\t"}
\* \d
Digits == {"0", "1", "2", "3", "4", "5", "6", "7", "8", "9"}

\* str.startswith, str.endswith
startswith(s, prefix) == Len(s) >= Len(prefix) /\ SubSeq(s, 1, Len(prefix)) = prefix
endswith(s, suffix) ==
    Len(s) >= Len(suffix) /\ SubSeq(s, Len(s) - Len(suffix) + 1, Len(s)) = suffix

\* How many characters of S follow one another in s from position i on.
RECURSIVE span(_, _, _)
span(s, i, S) == IF i <= Len(s) /\ s[i] \in S THEN 1 + span(s, i + 1, S) ELSE 0

\* ^ under re.MULTILINE
at_line_start(s, i) == i = 1 \/ s[i - 1] = "\n"

\* Where the delimiter that ends a (.*?) group starting at j stands: the
\* first one not preceded by a newline; 0 when there is none.
RECURSIVE closing(_, _, _)
closing(s, j, delim) ==
    IF j + Len(delim) - 1 > Len(s) THEN 0
    ELSE IF SubSeq(s, j, j + Len(delim) - 1) = delim THEN j
    ELSE IF s[j] = "\n" THEN 0
    ELSE closing(s, j + 1, delim)

NoMatch == [len |-> 0, group |-> <<>>]

\* A delimited group at i: \*\*(.*?)\*\* or \*(.*?)\*
delimited(s, i, delim) ==
    IF i + Len(delim) - 1 <= Len(s) /\ SubSeq(s, i, i + Len(delim) - 1) = delim
    THEN LET j == closing(s, i + Len(delim), delim) IN
         IF j = 0 THEN NoMatch
         ELSE [len |-> j + Len(delim) - i, group |-> SubSeq(s, i + Len(delim), j - 1)]
    ELSE NoMatch

\* The match of a pattern at position i of s (len 0: none).
\*   heading  ^#{1,6}\s+      bullet  ^[-*]\s+      number  ^\d+\.\s+
\*   bold     \*\*(.*?)\*\*   italic  \*(.*?)\*
match(pattern, s, i) ==
    CASE pattern = "heading" ->
           LET k == span(s, i, {"#"})
               w == span(s, i + k, Whitespace)
           IN IF at_line_start(s, i) /\ k \in 1..6 /\ w >= 1
              THEN [len |-> k + w, group |-> <<>>] ELSE NoMatch
      [] pattern = "bullet" ->
           LET w == span(s, i + 1, Whitespace) IN
           IF at_line_start(s, i) /\ s[i] \in {"-", "*"} /\ w >= 1
           THEN [len |-> 1 + w, group |-> <<>>] ELSE NoMatch
      [] pattern = "number" ->
           LET d == span(s, i, Digits)
               w == span(s, i + d + 1, Whitespace)
           IN IF at_line_start(s, i) /\ d >= 1 /\ i + d <= Len(s) /\ s[i + d] = "."
                 /\ w >= 1
              THEN [len |-> d + 1 + w, group |-> <<>>] ELSE NoMatch
      [] pattern = "bold" -> delimited(s, i, <<"*", "*">>)
      [] pattern = "italic" -> delimited(s, i, <<"*">>)

\* re.sub(pattern, repl, s) from position i on: a match is replaced by
\* before + group + after (repl is r'\1' or '' when both are empty).
RECURSIVE re_sub(_, _, _, _, _)
re_sub(pattern, before, after, s, i) ==
    IF i > Len(s) THEN <<>>
    ELSE LET m == match(pattern, s, i) IN
         IF m.len > 0
         THEN (IF pattern \in {"bold", "italic"} THEN before \o m.group \o after ELSE <<>>)
                  \o re_sub(pattern, before, after, s, i + m.len)
         ELSE <<s[i]>> \o re_sub(pattern, before, after, s, i + 1)

\* The page keeps its heading markers.
text_of_page_keeps_heading(md_content) ==
    LET t2 == re_sub("bold", <<>>, <<>>, md_content, 1)
        t3 == re_sub("italic", <<>>, <<>>, t2, 1)
        t4 == re_sub("bullet", <<>>, <<>>, t3, 1)
    IN re_sub("number", <<>>, <<>>, t4, 1)

\* src/app.py:171-176: the five substitutions of markdown_to_text.
text_of_page(md_content) ==
    LET t1 == re_sub("heading", <<>>, <<>>, md_content, 1)
        t2 == re_sub("bold", <<>>, <<>>, t1, 1)
        t3 == re_sub("italic", <<>>, <<>>, t2, 1)
        t4 == re_sub("bullet", <<>>, <<>>, t3, 1)
    IN re_sub("number", <<>>, <<>>, t4, 1)

\* "\n\n--- Page Break ---\n\n" (src/app.py:179)
TextSeparator ==
    << "\n", "\n", "-", "-", "-", " ", "P", "a", "g", "e", " ", "B", "r", "e", "a",
       "k", " ", "-", "-", "-", "\n", "\n" >>

\* A separator goes before every page.
needs_separator_always(idx) == TRUE

\* src/app.py:128, 178 and 188: `if page_idx > 0:`
needs_separator(idx) == idx > 0

\* ''.join(parts)
RECURSIVE join(_)
join(parts) == IF parts = <<>> THEN <<>> ELSE Head(parts) \o join(Tail(parts))

\* src/app.py:169-180: full_text after the first n pages.
RECURSIVE text_parts(_, _)
text_parts(pages, n) ==
    IF n = 0 THEN <<>>
    ELSE text_parts(pages, n - 1)
             \o (IF needs_separator(n - 1) THEN <<TextSeparator>> ELSE <<>>)
             \o <<text_of_page(pages[n])>>

\* src/app.py:168-182
markdown_to_text(pages) == join(text_parts(pages, Len(pages)))

\* str.split('\n') from position i on, cur being the line read so far.
RECURSIVE split_from(_, _, _)
split_from(s, i, cur) ==
    IF i > Len(s) THEN <<cur>>
    ELSE IF s[i] = "\n" THEN <<cur>> \o split_from(s, i + 1, <<>>)
    ELSE split_from(s, i + 1, Append(cur, s[i]))

split_lines(s) == split_from(s, 1, <<>>)

\* str.rstrip(), str.lstrip(), str.strip()
RECURSIVE rstrip(_)
rstrip(s) ==
    IF s # <<>> /\ s[Len(s)] \in Whitespace THEN rstrip(SubSeq(s, 1, Len(s) - 1)) ELSE s
RECURSIVE lstrip(_)
lstrip(s) == IF s # <<>> /\ s[1] \in Whitespace THEN lstrip(Tail(s)) ELSE s
strip(s) == lstrip(rstrip(s))

\* s[n:]
drop(s, n) == SubSeq(s, n + 1, Len(s))

\* The length of the match of ^\d+\. at the start of a line (0: none).
number_prefix(line) ==
    LET d == span(line, 1, Digits) IN
    IF d >= 1 /\ Len(line) >= d + 2 /\ line[d + 1] = "." /\ line[d + 2] = " "
    THEN d + 2 ELSE 0

\* f'<name>{content}</name>'
element(name, content) ==
    <<"<">> \o name \o <<">">> \o content \o <<"<", "/">> \o name \o <<">">>

\* src/app.py:193-214: the part appended for one line.
html_of_line(raw) ==
    LET line == strip(raw) IN
    IF line = <<>> THEN element(<<"p">>, <<>>)
    ELSE IF startswith(line, <<"#", "#", "#", "#", " ">>)
         THEN element(<<"h", "4">>, drop(line, 5))
    ELSE IF startswith(line, <<"#", "#", "#", " ">>)
         THEN element(<<"h", "3">>, drop(line, 4))
    ELSE IF startswith(line, <<"#", "#", " ">>)
         THEN element(<<"h", "2">>, drop(line, 3))
    ELSE IF startswith(line, <<"#", " ">>)
         THEN element(<<"h", "1">>, drop(line, 2))
    ELSE IF startswith(line, <<"-", " ">>) \/ startswith(line, <<"*", " ">>)
         THEN element(<<"l", "i">>, drop(line, 2))
    ELSE IF number_prefix(line) > 0
         THEN element(<<"l", "i">>, drop(line, number_prefix(line)))
    ELSE LET strong == re_sub("bold", <<"<", "s", "t", "r", "o", "n", "g", ">">>,
                              <<"<", "/", "s", "t", "r", "o", "n", "g", ">">>, line, 1)
             em == re_sub("italic", <<"<", "e", "m", ">">>, <<"<", "/", "e", "m", ">">>,
                          strong, 1)
         IN element(<<"p">>, em)

\* src/app.py:185
HtmlHead ==
    << "<", "!", "D", "O", "C", "T", "Y", "P", "E", " ", "h", "t", "m", "l", ">", "<",
       "h", "t", "m", "l", ">", "<", "h", "e", "a", "d", ">", "<", "m", "e", "t", "a",
       " ", "c", "h", "a", "r", "s", "e", "t", "=", "\"", "u", "t", "f", "-", "8",
       "\"", ">", "<", "s", "t", "y", "l", "e", ">", "b", "o", "d", "y", "{", "f", "o",
       "n", "t", "-", "f", "a", "m", "i", "l", "y", ":", "A", "r", "i", "a", "l", ",",
       "s", "a", "n", "s", "-", "s", "e", "r", "i", "f", ";", "m", "a", "x", "-", "w",
       "i", "d", "t", "h", ":", "8", "0", "0", "p", "x", ";", "m", "a", "r", "g", "i",
       "n", ":", "0", " ", "a", "u", "t", "o", ";", "p", "a", "d", "d", "i", "n", "g",
       ":", "2", "0", "p", "x", ";", "}", "h", "1", ",", "h", "2", ",", "h", "3", ",",
       "h", "4", "{", "c", "o", "l", "o", "r", ":", "#", "3", "3", "3", ";", "}", "t",
       "a", "b", "l", "e", "{", "b", "o", "r", "d", "e", "r", "-", "c", "o", "l", "l",
       "a", "p", "s", "e", ":", "c", "o", "l", "l", "a", "p", "s", "e", ";", "w", "i",
       "d", "t", "h", ":", "1", "0", "0", "%", ";", "}", "t", "d", ",", "t", "h", "{",
       "b", "o", "r", "d", "e", "r", ":", "1", "p", "x", " ", "s", "o", "l", "i", "d",
       " ", "#", "d", "d", "d", ";", "p", "a", "d", "d", "i", "n", "g", ":", "8", "p",
       "x", ";", "}", ".", "p", "a", "g", "e", "-", "b", "r", "e", "a", "k", "{", "p",
       "a", "g", "e", "-", "b", "r", "e", "a", "k", "-", "a", "f", "t", "e", "r", ":",
       "a", "l", "w", "a", "y", "s", ";", "b", "o", "r", "d", "e", "r", "-", "b", "o",
       "t", "t", "o", "m", ":", "2", "p", "x", " ", "d", "a", "s", "h", "e", "d", " ",
       "#", "c", "c", "c", ";", "m", "a", "r", "g", "i", "n", ":", "3", "0", "p", "x",
       " ", "0", ";", "}", "<", "/", "s", "t", "y", "l", "e", ">", "<", "/", "h", "e",
       "a", "d", ">", "<", "b", "o", "d", "y", ">" >>

\* '</body></html>' (src/app.py:216)
HtmlTail ==
    << "<", "/", "b", "o", "d", "y", ">", "<", "/", "h", "t", "m", "l", ">" >>

\* '<div class="page-break"></div>' (src/app.py:189)
PageBreakDiv ==
    << "<", "d", "i", "v", " ", "c", "l", "a", "s", "s", "=", "\"", "p", "a", "g", "e",
       "-", "b", "r", "e", "a", "k", "\"", ">", "<", "/", "d", "i", "v", ">" >>

\* src/app.py:187-214: the parts appended for the first n pages.
RECURSIVE html_pages(_, _)
html_pages(pages, n) ==
    IF n = 0 THEN <<>>
    ELSE LET lines == split_lines(pages[n]) IN
         html_pages(pages, n - 1)
             \o (IF needs_separator(n - 1) THEN <<PageBreakDiv>> ELSE <<>>)
             \o [k \in 1..Len(lines) |-> html_of_line(lines[k])]

\* src/app.py:184-217
markdown_to_html(pages) ==
    join(<<HtmlHead>> \o html_pages(pages, Len(pages)) \o <<HtmlTail>>)

\* The blocks of the python-docx document.
Run(text, bold) == [text |-> text, bold |-> bold]
Paragraph(style, runs) == [kind |-> "paragraph", level |-> 0, style |-> style, runs |-> runs]
Heading(text, level) ==
    [kind |-> "heading", level |-> level, style |-> "Heading", runs |-> <<Run(text, FALSE)>>]
PageBreak == [kind |-> "page_break", level |-> 0, style |-> "Normal", runs |-> <<>>]

\* re.split(r'(\*\*.*?\*\*)', s) from position i on, cur being the part read
\* so far: the parts between the matches, and the matches.
RECURSIVE split_bold(_, _, _)
split_bold(s, i, cur) ==
    IF i > Len(s) THEN <<cur>>
    ELSE LET m == delimited(s, i, <<"*", "*">>) IN
         IF m.len > 0
         THEN <<cur, SubSeq(s, i, i + m.len - 1)>> \o split_bold(s, i + m.len, <<>>)
         ELSE split_bold(s, i + 1, Append(cur, s[i]))

\* src/app.py:159-164
run_of_part(part) ==
    IF startswith(part, <<"*", "*">>) /\ endswith(part, <<"*", "*">>)
    THEN Run(SubSeq(part, 3, Len(part) - 2), TRUE)
    ELSE Run(part, FALSE)

\* src/app.py:134-164: the block added for one line.
docx_of_line(raw) ==
    LET line == rstrip(raw) IN
    IF line = <<>> THEN Paragraph("Normal", <<>>)
    ELSE IF startswith(line, <<"#", " ">>) THEN Heading(drop(line, 2), 1)
    ELSE IF startswith(line, <<"#", "#", " ">>) THEN Heading(drop(line, 3), 2)
    ELSE IF startswith(line, <<"#", "#", "#", " ">>) THEN Heading(drop(line, 4), 3)
    ELSE IF startswith(line, <<"#", "#", "#", "#", " ">>) THEN Heading(drop(line, 5), 4)
    ELSE IF startswith(line, <<"-", " ">>) \/ startswith(line, <<"*", " ">>)
         THEN Paragraph("List Bullet", <<Run(drop(line, 2), FALSE)>>)
    ELSE IF number_prefix(line) > 0
         THEN Paragraph("List Number", <<Run(drop(line, number_prefix(line)), FALSE)>>)
    ELSE IF startswith(line, <<"|">>) /\ endswith(line, <<"|">>)
         THEN Paragraph("Normal", <<Run(line, FALSE)>>)
    ELSE LET parts == split_bold(line, 1, <<>>) IN
         Paragraph("Normal", [k \in 1..Len(parts) |-> run_of_part(parts[k])])

\* src/app.py:127-164: the blocks added for the first n pages.
RECURSIVE docx_pages(_, _)
docx_pages(pages, n) ==
    IF n = 0 THEN <<>>
    ELSE LET lines == split_lines(pages[n]) IN
         docx_pages(pages, n - 1)
             \o (IF needs_separator(n - 1) THEN <<PageBreak>> ELSE <<>>)
             \o [k \in 1..Len(lines) |-> docx_of_line(lines[k])]

\* src/app.py:119-166: the document that doc.save writes.
markdown_to_docx(pages) == docx_pages(pages, Len(pages))

\* ------------------------------------------------------------ the renderer calls
\* "# Title\n\nHello **world**"
TitlePage ==
    << "#", " ", "T", "i", "t", "l", "e", "\n", "\n", "H", "e", "l", "l", "o", " ",
       "*", "*", "w", "o", "r", "l", "d", "*", "*" >>
\* "- item1\n- item2"
ItemsPage ==
    << "-", " ", "i", "t", "e", "m", "1", "\n", "-", " ", "i", "t", "e", "m", "2" >>
\* "## Sub \n1. one\n *it* x\n"
MixedPage ==
    << "#", "#", " ", "S", "u", "b", " ", "\n", "1", ".", " ", "o", "n", "e", "\n",
       " ", "*", "i", "t", "*", " ", "x", "\n" >>
\* "| a | b |\n**b** and **c**"
TablePage ==
    << "|", " ", "a", " ", "|", " ", "b", " ", "|", "\n", "*", "*", "b", "*", "*", " ",
       "a", "n", "d", " ", "*", "*", "c", "*", "*" >>
BlankPage == <<>>

SamplePages == {TitlePage, ItemsPage, MixedPage, TablePage, BlankPage}
RenderInputs == UNION { [1..n -> SamplePages] : n \in 1..MaxRenderPages }

RenderInit ==
    /\ pdf_pages = [f \in FileNames |-> SecondPdfPages]
    /\ OrchestratorInit
    /\ script = <<>>
    /\ proc = <<>>
    /\ NoCheckpointCalls
    /\ md_input \in RenderInputs
    /\ rendered = <<>>

\* The output_path handed to a lone markdown_to_docx call: a file of
\* OUTPUT_DIR, as src/app.py:525-526 build it, or a file of another
\* directory.
DocxPaths ==
    { [dir |-> "output", name |-> "x", ext |-> "docx"],
      [dir |-> "elsewhere", name |-> "x", ext |-> "docx"] }

\* src/app.py:166: doc.save(output_path), seen from the directory output/.
doc_save(dir_files, path) ==
    IF path.dir = "output"
    THEN dir_files \cup {[name |-> path.name, ext |-> path.ext]}
    ELSE dir_files

\* The three renderers called one after the other on the same pages; the
\* call of markdown_to_docx saves its document.
CallRenderers ==
    /\ md_input # <<>>
    /\ rendered = <<>>
    /\ rendered' = << [ text |-> markdown_to_text(md_input),
                        html |-> markdown_to_html(md_input),
                        docx |-> markdown_to_docx(md_input) ] >>
    /\ \E path \in DocxPaths : output_dir' = doc_save(output_dir, path)
    /\ UNCHANGED <<pdf_pages, id_seq, unreached, session, progress_file, jobs, pc, locals, call,
                   history, script, proc, saved, intact, loaded, md_input>>

SpecRender == RenderInit /\ [][CallRenderers]_vars

\* ------------------------------------------------------------ a run left alone
\* A fresh run that nobody cancels, no run-fatal exception ends and whose
\* jobs nobody deletes: the run block is sequential code, so each of its
\* steps is taken once it can be.
RunStep ==
    \/ FileLoopExit
    \/ FreshInit
    \/ PageLoopHead
    \/ ForwardPage
    \/ PushProgress
    \/ AfterForward
    \/ SweepHead
    \/ SweepPage
    \/ OutputGate
    \/ WriteOutputs
    \/ CompleteJob
    \/ ClearProgress

NextLive ==
    \/ \E files \in Uploads, formats \in FormatChoices : Start(files, formats)
    \/ RunStep

SpecLive == Init /\ [][NextLive]_vars /\ WF_vars(RunStep)

\* ------------------------------------------------------------ a lone OCR call
\* process_page_with_gemini on its own: the mock is drawn, the call is made.
ProcessInit ==
    /\ pdf_pages = [f \in FileNames |-> SecondPdfPages]
    /\ OrchestratorInit
    /\ script \in AiScripts
    /\ proc = <<>>
    /\ NoCheckpointCalls
    /\ NoRenderCalls

CallProcess ==
    /\ script # <<>>
    /\ proc = <<>>
    /\ proc' = <<process_page_with_gemini(script)>>
    /\ UNCHANGED <<pdf_pages, id_seq, unreached, session, disk, jobs, pc, locals, call, history, script,
                   saved, intact, loaded, renders>>

SpecProcess == ProcessInit /\ [][CallProcess]_vars

\* ------------------------------------------------------------ the checkpoint calls
\* save_progress, load_progress and clear_progress on their own, with the
\* file cut short by a write that did not finish, and the Resume button.
RecordTexts == {"", "# a0"}
ValidRecords ==
    UNION { { progress_dict(n, c, pages, failed, "a.pdf", jid) :
                c \in 0..n, pages \in [1..n -> RecordTexts],
                failed \in {<<>>, <<0>>}, jid \in {NoJob, 1} }
            \cup
            { [ total_pages |-> n, completed_pages |-> c, markdown_pages |-> pages,
                failed_pages |-> failed, filename |-> "a.pdf" ] :
                c \in 0..n, pages \in [1..n -> RecordTexts], failed \in {<<>>, <<0>>} }
          : n \in 1..RecordPages }

CheckpointInit ==
    /\ pdf_pages = [f \in FileNames |-> SecondPdfPages]
    /\ OrchestratorInit
    /\ script = <<>>
    /\ proc = <<>>
    /\ NoCheckpointCalls
    /\ NoRenderCalls

SaveProgress(r) ==
    /\ pc = "idle"
    /\ Len(saved) < MaxSaves
    /\ progress_file' = save_progress(progress_file, r)
    /\ saved' = Append(saved, r)
    /\ intact' = TRUE
    /\ loaded' = <<>>
    /\ UNCHANGED <<pdf_pages, id_seq, unreached, session, output_dir, jobs, pc, locals, call, history,
                   script, proc, renders>>

\* The file keeps only its first n tokens.
TruncateFile(n) ==
    /\ pc = "idle"
    /\ progress_file.exists /\ intact
    /\ n < Len(progress_file.text)
    /\ progress_file' = File(SubSeq(progress_file.text, 1, n))
    /\ intact' = FALSE
    /\ loaded' = <<>>
    /\ UNCHANGED <<pdf_pages, id_seq, unreached, session, output_dir, jobs, pc, locals, call, history,
                   script, proc, saved, renders>>

ClearCall ==
    /\ pc = "idle"
    /\ progress_file.exists
    /\ progress_file' = clear_progress(progress_file)
    /\ loaded' = <<>>
    /\ UNCHANGED <<pdf_pages, id_seq, unreached, session, output_dir, jobs, pc, locals, call, history,
                   script, proc, saved, intact, renders>>

LoadProgress ==
    /\ pc = "idle"
    /\ loaded = <<>>
    /\ loaded' = <<load_progress(progress_file)>>
    /\ UNCHANGED <<pdf_pages, id_seq, unreached, session, disk, jobs, pc, locals, call, history,
                   script, proc, saved, intact, renders>>

NextCheckpoint ==
    \/ \E r \in ValidRecords : SaveProgress(r)
    \/ \E n \in 0..Len(KeyOrder) + 1 : TruncateFile(n)
    \/ ClearCall
    \/ LoadProgress
    \/ \E files \in Uploads, formats \in FormatChoices : Resume(files, formats)

SpecCheckpoint == CheckpointInit /\ [][NextCheckpoint]_vars

\* ------------------------------------------------------------ properties
TerminalStatus == {"completed", "failed", "cancelled"}
TerminalOps == {"complete_job", "fail_job", "cancel_job"}

\* The file's passes are over and its outputs are being produced: the run was
\* not cancelled up to the check of src/app.py:512.
AtOutputs == pc \in {"write", "complete", "clear"}
Fresh == resume_data = <<>>
Pages == 0..(total_pages - 1)

\* Pages whose first OCR call of this run failed, and those whose second
\* call (the retry sweep's) failed too.
FailedForward == {p \in Pages : run_calls[p + 1] # <<>> /\ ~run_calls[p + 1][1]}
FailedAgain == {p \in FailedForward : Len(run_calls[p + 1]) >= 2 /\ ~run_calls[p + 1][2]}
Elements(seq) == {seq[i] : i \in 1..Len(seq)}

\* C1: after the passes of a fresh, uncancelled run over a file of P pages,
\* markdown_pages has length P, a page that failed in both passes is "", a
\* page whose call succeeded (in the forward pass, or else in the sweep) holds
\* the text returned for it, and failed_pages is exactly the pages that
\* failed in the forward pass and again in the sweep.
C1_FullRunResult ==
    (AtOutputs /\ Fresh) =>
        /\ Len(markdown_pages) = pdf_pages[uploaded_file]
        /\ total_pages = pdf_pages[uploaded_file]
        /\ \A p \in FailedAgain : markdown_pages[p + 1] = ""
        /\ \A p \in Pages \ FailedAgain :
               markdown_pages[p + 1] = PageText(uploaded_file, p)
        /\ Elements(failed_pages) = FailedAgain
        /\ Len(failed_pages) = Cardinality(FailedAgain)

C1_Witness ==
    /\ AtOutputs /\ Fresh
    /\ total_pages = MaxPages
    /\ FailedAgain # {}
    /\ FailedForward # FailedAgain

\* Every page of the job gave one outcome on all its calls.
Deterministic == \A i \in DOMAIN observed : observed[i] # "mixed"
SameFile == resume_data # <<>> /\ resume_data[1].filename = uploaded_file

\* What one uninterrupted run leaves in markdown_pages when page p always
\* gives the outcome recorded for it.
Uninterrupted ==
    [i \in DOMAIN observed |->
        IF observed[i] = "ok" THEN PageText(uploaded_file, i - 1) ELSE ""]

\* C2: with an OCR capability that gives each page one outcome, a run that
\* resumes the file's checkpoint and reaches its outputs has processed every
\* page and has the markdown_pages of one uninterrupted run, and so has a
\* fresh run.
C2_ResumeIdempotent ==
    (AtOutputs /\ (Fresh \/ SameFile) /\ Deterministic) =>
        /\ \A i \in DOMAIN observed : observed[i] # "none"
        /\ markdown_pages = Uninterrupted

C2_Witness ==
    /\ AtOutputs /\ SameFile /\ Deterministic
    /\ resume_data[1].completed_pages = CheckpointEvery
    /\ total_pages > CheckpointEvery
    /\ failed_pages # <<>>
    /\ markdown_pages = Uninterrupted

\* C3: no complete_job, fail_job or cancel_job is issued for a job whose
\* status is already completed, failed or cancelled.
C3_NoRegress ==
    [][ (call'.op \in TerminalOps /\ call'.job_id \in DOMAIN jobs)
            => jobs[call'.job_id].status \notin TerminalStatus ]_vars

\* C4: when the forward pass observes the cancel flag before page k, the
\* checkpoint on disk has completed_pages = k and the markdown and failed
\* pages processed so far.
C4_CheckpointOnCancel ==
    (call.op = "cancel_job") =>
        /\ progress_file # NoFile
        /\ json_load(progress_file).completed_pages = call.completed_pages
        /\ json_load(progress_file).markdown_pages = markdown_pages
        /\ json_load(progress_file).failed_pages = failed_pages

TransientMessages ==
    { <<"429", "RESOURCE_EXHAUSTED">>, <<"Quota", "exceeded">>,
      <<"503", "UNAVAILABLE">>, <<"Internal", "error">> }
Transient(o) == o.raises /\ o.msg \in TransientMessages
Called == proc # <<>>

\* C5: when every call raises a rate-limit or server signal, the processor
\* makes exactly 5 attempts, sleeps 6, 12, 24, 48, 96 and returns ("", false).
C5_RetryExhaustion ==
    (Called /\ \A i \in 1..5 : Transient(script[i])) =>
        /\ proc[1].attempts = 5
        /\ proc[1].delays = <<6, 12, 24, 48, 96>>
        /\ proc[1].text = ""
        /\ proc[1].success = FALSE

C5_Witness ==
    /\ Called
    /\ \A i \in 1..5 : Transient(script[i])
    /\ script[1] # script[2]
    /\ proc[1].attempts = 5

\* The mock raises transient failures on its first j - 1 calls and answers
\* on call j.
SucceedsOn(j) == (\A i \in 1..(j - 1) : Transient(script[i])) /\ ~script[j].raises

\* C6: when the first j - 1 attempts fail transiently and attempt j succeeds,
\* exactly j - 1 delays are observed, the i-th (from 0) being 6 * 2^i, and
\* the answer is returned with success; for j = 3 the delays are 6 and 12.
C6_RetryBackoff ==
    Called =>
        /\ \A j \in 1..5 :
              SucceedsOn(j) =>
                  /\ proc[1].attempts = j
                  /\ Len(proc[1].delays) = j - 1
                  /\ \A i \in 0..(j - 2) : proc[1].delays[i + 1] = 6 * Pow2(i)
                  /\ proc[1].success = TRUE
                  /\ proc[1].text = IF script[j].text = Null THEN "" ELSE script[j].text
        /\ SucceedsOn(3) => proc[1].delays = <<6, 12>>

C6_Witness ==
    /\ Called
    /\ SucceedsOn(3)
    /\ script[3].text = "# Title"
    /\ proc[1].success

\* The mock raises transient failures on its first j - 1 calls and a failure
\* of another kind on call j.
FailsFastOn(j) ==
    /\ \A i \in 1..(j - 1) : Transient(script[i])
    /\ script[j].raises /\ script[j].msg \notin TransientMessages

\* C7: a non-transient failure ends the call at once with ("", false): no
\* attempt and no delay follows it, however many transient failures came
\* before it.
C7_FailFast ==
    Called =>
        \A j \in 1..5 :
            FailsFastOn(j) =>
                /\ proc[1].text = "" /\ proc[1].success = FALSE
                /\ proc[1].attempts = j
                /\ Len(proc[1].delays) = j - 1

C7_Witness ==
    /\ Called
    /\ FailsFastOn(4)
    /\ proc[1].attempts = 4

\* Some page of the file has had no call in this run, or has failed and not
\* been retried.
PartlyProcessed ==
    \E p \in Pages :
        \/ p >= page_idx
        \/ (Len(run_calls[p + 1]) = 1 /\ ~run_calls[p + 1][1])

\* C8: when the cancel flag makes the run leave a partly processed file
\* without outputs, the file's job (unless its row was deleted) is cancelled
\* with the number of pages the forward pass completed.
C8_CancelledUpdate ==
    [][ (pc = "output" /\ pc' = "file_loop" /\ PartlyProcessed)
            => /\ job_id # NoJob
               /\ job_id \in DOMAIN jobs'
                     => /\ jobs'[job_id].status = "cancelled"
                        /\ jobs'[job_id].completed_pages = page_idx ]_vars

\* C9: a fail_job is issued only for the job of the file being processed
\* (the one created for it in this iteration, or the one of the checkpoint it
\* resumes), and the step changes no other job.
C9_FailsOwnJob ==
    [][ (call'.op = "fail_job")
            => /\ (pc # "file_loop" \/ resume_data # <<>>)
               /\ call'.job_id = (IF resume_data # <<>> THEN resume_data[1].job_id
                                  ELSE job_id)
               /\ \A j \in DOMAIN jobs : j # call'.job_id => jobs'[j] = jobs[j] ]_vars

AllOutputsWritten ==
    \A i \in 1..Len(requested_outputs(stem(uploaded_file), output_format)) :
        requested_outputs(stem(uploaded_file), output_format)[i] \in output_dir

\* C10: the checkpoint is deleted only by the step that follows the writing
\* of every requested output and the completed update (the file's job,
\* unless its row was deleted, is completed); a step that ends a file
\* cancelled, or the run by an exception or at the end of the file loop,
\* leaves the checkpoint file as it was.
C10_CheckpointDeletion ==
    [][ /\ (progress_file # NoFile /\ progress_file' = NoFile)
            => /\ pc = "clear"
               /\ AllOutputsWritten
               /\ job_id # NoJob
               /\ job_id \in DOMAIN jobs => jobs[job_id].status = "completed"
        /\ (pc' = "idle" \/ (pc = "output" /\ pc' = "file_loop")
               \/ call'.op \in {"cancel_job", "fail_job"})
            => progress_file' = progress_file ]_vars

C10_Witness ==
    /\ pc = "file_loop"
    /\ file_idx = 1
    /\ progress_file = NoFile
    /\ job_id \in DOMAIN jobs
    /\ jobs[job_id].status = "completed"
    /\ Cardinality(output_dir) = 2

\* The step in which create_job returned None.
LedgerRefused == call'.op = "create_job" /\ call'.job_id = NoJob

\* C11: when create_job returns None on a fresh start, the step ends the run
\* for that file: the block is left with the flag false, no page is sent to
\* the processor, and the checkpoint file, the output files and the ledger
\* are as they were.
C11_LedgerUnavailable ==
    [][ LedgerRefused
            => /\ pc' = "idle"
               /\ processing' = FALSE
               /\ run_calls' = <<>>
               /\ progress_file' = progress_file
               /\ output_dir' = output_dir
               /\ jobs' = jobs ]_vars

C11_Witness ==
    /\ pc = "idle"
    /\ call.op = "create_job" /\ call.job_id = NoJob
    /\ ~processing
    /\ DOMAIN jobs = {1} /\ jobs[1].status = "completed"
    /\ progress_file = NoFile

\* The cancel flag is up in a run in progress.
CancelPending == cancel_requested /\ processing
\* Steps: a page is sent to the processor from a loop head, a file of the
\* batch is started, an output file is written, a completed update is pushed.
PageBegins == pc \in {"page_loop", "sweep"} /\ pc' \in {"ocr", "sweep_ocr"}
FileBegins == pc = "file_loop" /\ pc' = "page_loop"
OutputWritten == pc = "write" /\ (pc' = "complete" \/ output_dir' # output_dir)
CompletedPushed == call'.op = "complete_job"

\* C12 as stated: once the cancel flag is set during a run, no page begins,
\* no later file is started, no output file is written and no completed
\* update is pushed.
C12_CancelStopsAll ==
    [][ CancelPending
            => ~PageBegins /\ ~FileBegins /\ ~OutputWritten /\ ~CompletedPushed ]_vars

\* C12, amended: once the cancel flag is set during a run, no page begins in
\* either pass and no file is started; the outputs and the completed update
\* are withheld when the flag is set before the check that precedes the
\* outputs (src/app.py:512) is passed.
C12_CancelCooperative ==
    [][ CancelPending
            => /\ ~PageBegins /\ ~FileBegins
               /\ (pc = "output" => pc' # "write")
               /\ ~AtOutputs => (~OutputWritten /\ ~CompletedPushed) ]_vars

C12_Witness ==
    /\ CancelPending
    /\ pc = "file_loop"
    /\ Len(files_to_process) = 2 /\ file_idx = 1
    /\ page_idx = 1 /\ total_pages > 1
    /\ output_dir = {}
    /\ job_id \in DOMAIN jobs
    /\ jobs[job_id].status = "cancelled"

\* A step writes the checkpoint file.
CheckpointWritten == progress_file' # NoFile /\ progress_file' # progress_file

\* C13: the checkpoint on disk has len(markdown_pages) = total_pages and
\* 0 <= completed_pages <= total_pages; a step that writes it, in a fresh or
\* a resumed run, writes the number of pages the forward pass has processed;
\* the retry sweep leaves the file as it is.
C13_CheckpointShape ==
    [][ LET ck == json_load(progress_file') IN
        /\ progress_file' # NoFile
            => /\ Len(ck.markdown_pages) = ck.total_pages
               /\ ck.completed_pages \in 0..ck.total_pages
        /\ CheckpointWritten
            => /\ ck.completed_pages = page_idx'
               /\ ck.total_pages = total_pages'
               /\ ck.markdown_pages = markdown_pages'
        /\ pc \in {"after_forward", "sweep", "sweep_ocr"}
            => progress_file' = progress_file ]_vars

C13_Witness ==
    /\ pc = "sweep_ocr"
    /\ SameFile
    /\ resume_data[1].completed_pages = 0
    /\ progress_file # NoFile
    /\ json_load(progress_file).completed_pages = CheckpointEvery
    /\ json_load(progress_file).failed_pages # <<>>

\* C14: a run begins only from the flag being false and sets it; while the
\* run block executes the flag is true; when the block is left, whatever the
\* way (completed, cancelled, exception, ledger unavailable, no file
\* uploaded), the flag is false.
C14_SingleRun ==
    [][ /\ (pc = "idle" /\ pc' # "idle") => (~processing /\ processing')
        /\ (pc' # "idle") => processing'
        /\ (pc' = "idle") => ~processing' ]_vars

C14_Witness ==
    /\ pc = "idle"
    /\ ~processing
    /\ used.start = 1 /\ used.resume = 1 /\ used.cancel = 1
    /\ call.op = "fail_job"
    /\ call.job_id \in DOMAIN jobs
    /\ jobs[call.job_id].status = "failed"

\* File k of the batch is being processed.
InFile(k) == processing /\ pc # "idle" /\ k < Len(files_to_process) /\ file_idx = k

\* File k has its outputs and its completed update, with the count of the
\* pages that failed in both passes.
Finished(k) ==
    /\ pc = "clear" /\ file_idx = k
    /\ AllOutputsWritten
    /\ call.op = "complete_job" /\ call.job_id = job_id
    /\ call.failed_pages = Len(failed_pages)
    /\ Elements(failed_pages) = FailedAgain
    /\ job_id \in DOMAIN jobs
    /\ jobs[job_id].status = "completed"
    /\ jobs[job_id].failed_pages = Cardinality(FailedAgain)

\* C15: whatever pages fail, every file of an uncancelled run without
\* run-fatal exception gets every requested output written and a completed
\* update whose failed count is the size of the final failed_pages.
C15_FailuresDoNotBlock == \A k \in 0..1 : InFile(k) ~> Finished(k)

C15_Witness ==
    /\ Finished(1)
    /\ total_pages = SecondPdfPages
    /\ Len(failed_pages) = total_pages
    /\ DOMAIN jobs = {1, 2} /\ jobs[1].status = "completed"

\* C16: load_progress after save_progress(r) returns r, for r with or
\* without job_id, and after a second save nothing of the first is left.
C16_RoundTrip ==
    (loaded # <<>> /\ saved # <<>> /\ progress_file.exists /\ intact)
        => loaded[1] = <<saved[Len(saved)]>>

C16_Witness ==
    /\ loaded # <<>>
    /\ progress_file.exists /\ intact
    /\ Len(saved) = 2
    /\ "job_id" \in DOMAIN saved[1]
    /\ "job_id" \notin DOMAIN saved[2]
    /\ saved[1].total_pages > saved[2].total_pages
    /\ loaded[1] = <<saved[2]>>

\* C17: load_progress on a missing file or on a text json.load rejects
\* returns None; the Resume button starts a run only on a checkpoint that
\* load_progress returned, never on a file cut short.
C17_NoProgress ==
    [][ /\ (loaded' # <<>> /\ (~progress_file'.exists \/ ~intact'))
            => loaded'[1] = <<>>
        /\ (pc = "idle" /\ pc' = "file_loop")
            => /\ progress_file.exists /\ intact
               /\ load_progress(progress_file) # <<>>
               /\ resume_data' = load_progress(progress_file) ]_vars

C17_Witness ==
    /\ loaded # <<>>
    /\ loaded[1] = <<>>
    /\ progress_file.exists /\ ~intact
    /\ Len(progress_file.text) = Len(KeyOrder) + 1
    /\ pc = "idle"

\* Page index p of the current file is blank, and its first call of this run
\* returned success.
BlankSuccess(p) ==
    /\ p < images /\ p < total_pages
    /\ PageText(uploaded_file, p) = ""
    /\ run_calls[p + 1] # <<>>
    /\ run_calls[p + 1][1]

\* C18: a page whose call succeeds with empty text is stored as "", is not
\* put in failed_pages (nor in retry_failed), and is not called again by the
\* retry sweep.
C18_BlankPage ==
    (pc \notin {"idle", "file_loop"}) =>
        \A p \in Pages :
            BlankSuccess(p) =>
                /\ markdown_pages[p + 1] = ""
                /\ (p \in Elements(failed_pages) => observed[p + 1] = "mixed")
                /\ p \notin Elements(retry_failed)
                /\ Len(run_calls[p + 1]) = 1

C18_Witness ==
    /\ AtOutputs /\ Fresh
    /\ BlankSuccess(1)
    /\ observed[2] = "ok"
    /\ FailedForward # {}
    /\ markdown_pages[2] = ""
    /\ failed_pages = <<>>

\* ------------------------------------------------------------ C19, C20
\* s cut at every occurrence of sep, leftmost first, read from position i on.
RECURSIVE pieces_from(_, _, _)
pieces_from(s, sep, i) ==
    LET hits == { j \in i..(Len(s) - Len(sep) + 1) : SubSeq(s, j, j + Len(sep) - 1) = sep } IN
    IF hits = {} THEN <<SubSeq(s, i, Len(s))>>
    ELSE LET j == CHOOSE h \in hits : \A g \in hits : h <= g IN
         <<SubSeq(s, i, j - 1)>> \o pieces_from(s, sep, j + Len(sep))

pieces(s, sep) == pieces_from(s, sep, 1)

\* Number of places where sub occurs in s.
occurrences(sub, s) ==
    Cardinality({ i \in 1..(Len(s) - Len(sub) + 1) : SubSeq(s, i, i + Len(sub) - 1) = sub })

\* What one page alone contributes to the hypertext and to the document.
HtmlOfPage(md_content) ==
    LET lines == split_lines(md_content) IN
    join([k \in 1..Len(lines) |-> html_of_line(lines[k])])
DocxOfPage(md_content) ==
    LET lines == split_lines(md_content) IN
    [k \in 1..Len(lines) |-> docx_of_line(lines[k])]

HtmlBody(html) == SubSeq(html, Len(HtmlHead) + 1, Len(html) - Len(HtmlTail))

\* C19: for n >= 1 pages each renderer emits exactly n-1 separators, one
\* between each pair of consecutive pages, none before the first page or
\* after the last, with the pages in input order: cutting the output at the
\* separators ("\n\n--- Page Break ---\n\n" in plain text, the page-break
\* div in hypertext, the hard page break in the document) gives back exactly
\* the n rendered pages, in order.
C19_PageSeparators ==
    rendered # <<>> =>
        LET n == Len(md_input)
            out == rendered[1]
        IN  /\ occurrences(TextSeparator, out.text) = n - 1
            /\ pieces(out.text, TextSeparator)
                   = [k \in 1..n |-> text_of_page(md_input[k])]
            /\ startswith(out.html, HtmlHead) /\ endswith(out.html, HtmlTail)
            /\ occurrences(PageBreakDiv, out.html) = n - 1
            /\ pieces(HtmlBody(out.html), PageBreakDiv)
                   = [k \in 1..n |-> HtmlOfPage(md_input[k])]
            /\ Cardinality({ b \in 1..Len(out.docx) : out.docx[b].kind = "page_break" })
                   = n - 1
            /\ pieces(out.docx, <<PageBreak>>)
                   = [k \in 1..n |-> DocxOfPage(md_input[k])]

C19_Witness ==
    /\ rendered # <<>>
    /\ Len(md_input) = 3
    /\ md_input[1] = TitlePage
    /\ md_input[2] = BlankPage
    /\ md_input[3] = ItemsPage
    /\ occurrences(TextSeparator, rendered[1].text) = 2

\* "Title\n\nHello world\n\n--- Page Break ---\n\nitem1\nitem2"
FixedText ==
    << "T", "i", "t", "l", "e", "\n", "\n", "H", "e", "l", "l", "o", " ", "w", "o",
       "r", "l", "d", "\n", "\n", "-", "-", "-", " ", "P", "a", "g", "e", " ", "B",
       "r", "e", "a", "k", " ", "-", "-", "-", "\n", "\n", "i", "t", "e", "m", "1",
       "\n", "i", "t", "e", "m", "2" >>

FixedInput == <<TitlePage, ItemsPage>>

\* C20: on ["# Title\n\nHello **world**", "- item1\n- item2"] the plain text
\* is exactly "Title\n\nHello world\n\n--- Page Break ---\n\nitem1\nitem2",
\* and the hypertext contains <h1>Title</h1>, <li>item1</li>, <li>item2</li>
\* and exactly one page-break div.
C20_FixedInput ==
    (rendered # <<>> /\ md_input = FixedInput) =>
        /\ rendered[1].text = FixedText
        /\ occurrences(element(<<"h", "1">>, <<"T", "i", "t", "l", "e">>),
                       rendered[1].html) >= 1
        /\ occurrences(element(<<"l", "i">>, <<"i", "t", "e", "m", "1">>),
                       rendered[1].html) >= 1
        /\ occurrences(element(<<"l", "i">>, <<"i", "t", "e", "m", "2">>),
                       rendered[1].html) >= 1
        /\ occurrences(PageBreakDiv, rendered[1].html) = 1

C20_Witness ==
    /\ rendered # <<>>
    /\ md_input = FixedInput
    /\ Len(rendered[1].text) = Len(FixedText)

\* ------------------------------------------------------------ C21..C27
\* The result of the last OCR call made for page p in this run.
LastCall(p) == run_calls[p + 1][Len(run_calls[p + 1])]

\* C21: a step of the retry sweep reprocesses the next entry of the
\* failed_pages left by the forward pass, in the order recorded, one call per
\* entry and no call for another page; no page gets more than two calls in a
\* run; an uncancelled sweep goes through every entry; a page that succeeds
\* in the sweep has its text in markdown_pages and is absent from the
\* failed_pages the sweep leaves, a page that fails again is in it.
C21_RetrySweep ==
    [][ /\ (pc = "after_forward" /\ pc' = "sweep")
            => /\ sweep_idx' = 0 /\ retry_failed' = <<>>
               /\ failed_pages' = failed_pages
        /\ (pc = "sweep" /\ pc' = "sweep_ocr")
            => /\ failed_pages' = failed_pages
               /\ sweep_idx' = sweep_idx
        /\ (pc = "sweep_ocr" /\ pc' = "sweep")
            => LET p == failed_pages[sweep_idx + 1] IN
               /\ sweep_idx' = sweep_idx + 1
               /\ failed_pages' = failed_pages
               /\ \A i \in 1..sweep_idx : failed_pages[i] # p
               /\ \A q \in Pages :
                     Len(run_calls'[q + 1])
                         = Len(run_calls[q + 1]) + (IF q = p THEN 1 ELSE 0)
               /\ IF run_calls'[p + 1][Len(run_calls'[p + 1])]
                  THEN /\ markdown_pages'[p + 1] = PageText(uploaded_file, p)
                       /\ retry_failed' = retry_failed
                  ELSE /\ markdown_pages' = markdown_pages
                       /\ retry_failed' = Append(retry_failed, p)
        /\ (pc = "sweep" /\ pc' = "output")
            => /\ ~cancel_requested => sweep_idx = Len(failed_pages)
               /\ failed_pages' = retry_failed
               /\ \A i \in 1..sweep_idx :
                     IF LastCall(failed_pages[i])
                     THEN /\ failed_pages[i] \notin Elements(failed_pages')
                          /\ markdown_pages'[failed_pages[i] + 1]
                                 = PageText(uploaded_file, failed_pages[i])
                     ELSE failed_pages[i] \in Elements(failed_pages')
        /\ \A i \in DOMAIN run_calls' : Len(run_calls'[i]) <= 2 ]_vars

\* A resumed run at its outputs: a page that failed in the run before was
\* recovered by the sweep with its only call of this run, another failed in
\* the forward pass and again in the sweep.
C21_Witness ==
    /\ pc = "write" /\ SameFile
    /\ resume_data[1].failed_pages # <<>>
    /\ \E p \in Elements(resume_data[1].failed_pages) :
           /\ run_calls[p + 1] = <<TRUE>>
           /\ markdown_pages[p + 1] = PageText(uploaded_file, p)
           /\ p \notin Elements(failed_pages)
    /\ \E p \in Elements(failed_pages) : run_calls[p + 1] = <<FALSE, FALSE>>

\* The page the forward pass of the current file starts at.
StartPage == IF Fresh THEN 0 ELSE get(resume_data[1], "completed_pages", 0)

\* The pages whose list of calls a step makes longer.
CalledInStep == { i \in DOMAIN run_calls \cap DOMAIN run_calls' :
                    Len(run_calls'[i]) > Len(run_calls[i]) }

\* The pipeline of the file before the current one is over: every page was
\* processed, every page that failed was retried, the outputs are written,
\* the completed update is pushed (the job, unless its row was deleted, is
\* completed) and the checkpoint is deleted (the locals still hold that
\* file's values when the next file begins).
PreviousFinished ==
    LET prev == files_to_process[file_idx].file
        outs == requested_outputs(stem(prev), output_format)
    IN  /\ Len(run_calls) = pdf_pages[prev]
        /\ \A i \in DOMAIN run_calls :
              /\ run_calls[i] # <<>>
              /\ ~run_calls[i][1] => Len(run_calls[i]) = 2
        /\ \A i \in 1..Len(outs) : outs[i] \in output_dir
        /\ job_id # NoJob
        /\ job_id \in DOMAIN jobs
              => /\ jobs[job_id].filename = prev
                 /\ jobs[job_id].status = "completed"
        /\ progress_file = NoFile

\* C22: a step makes at most one OCR call, and while a call is in flight the
\* run is in progress and no other call is made; the forward pass calls
\* page start_page first and then the next index each time, up to
\* total_pages - 1 unless cancelled; the file loop moves on only from the end
\* of a file's pipeline (or cancelled), and a file after the first begins
\* only when the pipeline of the file before it is over.
C22_Sequential ==
    [][ /\ Cardinality(CalledInStep) <= 1
        /\ \A i \in CalledInStep : Len(run_calls'[i]) = Len(run_calls[i]) + 1
        /\ (pc \in {"ocr", "sweep_ocr"})
            => /\ processing
               /\ pc' = pc => run_calls' = run_calls
        /\ (pc \notin {"ocr", "sweep_ocr"}) => CalledInStep = {}
        /\ FileBegins => (~cancel_requested /\ page_idx' = StartPage)
        /\ (pc \in {"page_loop", "push"}) => page_idx' = page_idx \/ pc' = "idle"
        /\ (pc = "ocr" /\ pc' \in {"page_loop", "push"})
            => /\ page_idx < total_pages
               /\ CalledInStep = {page_idx + 1}
               /\ page_idx' = page_idx + 1
        /\ (pc = "page_loop" /\ pc' = "after_forward" /\ ~cancel_requested)
            => page_idx = total_pages
        /\ (pc # "idle" /\ pc' # "idle" /\ file_idx' # file_idx)
            => /\ file_idx' = file_idx + 1
               /\ pc = "clear" \/ cancel_requested
        /\ (FileBegins /\ file_idx >= 1) => PreviousFinished ]_vars

\* The second file of a batch is in its retry sweep; a page of the first
\* failed in both passes.
C22_Witness ==
    /\ pc = "sweep_ocr" /\ file_idx = 1
    /\ DOMAIN jobs = {1, 2}
    /\ jobs[1].status = "completed" /\ jobs[1].failed_pages = 1
    /\ jobs[1].total_pages > SmallFile
    /\ jobs[2].status = "processing"
    /\ page_idx = total_pages

\* C23: the step that processes a page whose 1-based number is a multiple of
\* 10 rewrites the checkpoint with completed_pages equal to that number (and
\* the pages and failed pages so far), and no other page's step touches the
\* file; the next step of the run pushes update_job_progress for the run's
\* job with the same completed_pages and the size of failed_pages (the row,
\* unless it was deleted, takes both, and no other row changes); an update
\* is pushed only from there, so the checkpoint it belongs to is already on
\* disk, and the run does not touch the ledger before.
C23_PeriodicCheckpoint ==
    [][ /\ (pc = "ocr" /\ pc' # "ocr" /\ pc' # "idle")
            => /\ jobs' = jobs
               /\ IF (page_idx + 1) % 10 = 0
                  THEN /\ progress_file'.exists /\ parses(progress_file'.text)
                       /\ json_load(progress_file') =
                              [ total_pages |-> total_pages,
                                completed_pages |-> page_idx + 1,
                                markdown_pages |-> markdown_pages',
                                failed_pages |-> failed_pages',
                                filename |-> uploaded_file,
                                job_id |-> job_id ]
                       /\ pc' = "push"
                  ELSE /\ progress_file' = progress_file
                       /\ pc' = "page_loop"
        /\ (pc = "push" /\ pc' # "push")
            => /\ page_idx % 10 = 0
               /\ job_id # NoJob
               /\ call' = LedgerCall("update_job_progress", job_id, page_idx,
                                     Len(failed_pages), Null)
               /\ DOMAIN jobs' = DOMAIN jobs
               /\ \A j \in DOMAIN jobs :
                     IF j = job_id
                     THEN /\ jobs'[j].completed_pages = page_idx
                          /\ jobs'[j].failed_pages = Len(failed_pages)
                     ELSE jobs'[j] = jobs[j]
               /\ progress_file' = progress_file
               /\ json_load(progress_file).completed_pages = call'.completed_pages
               /\ Len(json_load(progress_file).failed_pages) = call'.failed_pages
               /\ json_load(progress_file).job_id = call'.job_id
               /\ pc' = "page_loop"
        /\ (call'.op = "update_job_progress" /\ pc' # pc) => pc = "push" ]_vars

\* The update that follows the checkpoint of page 10 of an 11-page file has
\* been pushed, with two failed pages.
C23_Witness ==
    /\ pc = "page_loop"
    /\ call.op = "update_job_progress"
    /\ call.completed_pages = 10 /\ call.failed_pages = 2
    /\ total_pages = 11 /\ page_idx = 10
    /\ job_id \in DOMAIN jobs
    /\ jobs[job_id].completed_pages = 10 /\ jobs[job_id].failed_pages = 2
    /\ json_load(progress_file).completed_pages = 10

\* No OCR call has been made for the current file in this run.
NoCallYet == \A i \in DOMAIN run_calls : run_calls[i] = <<>>

\* C24: the step that begins a fresh file, before any OCR call for it, adds
\* one JobRecord with status processing and writes a checkpoint with
\* completed_pages = 0, total_pages empty strings, no failed page and that
\* job's id; the step that begins a resumed file creates no JobRecord and
\* leaves the checkpoint file as it is, and markdown_pages, failed_pages, the
\* start page and job_id are those of the checkpoint on disk.
C24_RunInit ==
    [][ /\ (FileBegins /\ Fresh)
            => LET n == pdf_pages[uploaded_file] IN
               /\ job_id' # NoJob /\ job_id' \notin DOMAIN jobs
               /\ DOMAIN jobs' = DOMAIN jobs \cup {job_id'}
               /\ \A j \in DOMAIN jobs : jobs'[j] = jobs[j]
               /\ jobs'[job_id'].status = "processing"
               /\ jobs'[job_id'].filename = uploaded_file
               /\ jobs'[job_id'].total_pages = n
               /\ progress_file'.exists /\ parses(progress_file'.text)
               /\ json_load(progress_file') =
                      [ total_pages |-> n, completed_pages |-> 0,
                        markdown_pages |-> [i \in 1..n |-> ""],
                        failed_pages |-> <<>>,
                        filename |-> uploaded_file, job_id |-> job_id' ]
               /\ page_idx' = 0
               /\ Len(run_calls') = n /\ \A i \in 1..n : run_calls'[i] = <<>>
        /\ (FileBegins /\ ~Fresh)
            => /\ jobs' = jobs
               /\ progress_file' = progress_file
               /\ progress_file.exists /\ parses(progress_file.text)
               /\ markdown_pages' = json_load(progress_file).markdown_pages
               /\ failed_pages' = json_load(progress_file).failed_pages
               /\ page_idx' = json_load(progress_file).completed_pages
               /\ total_pages' = json_load(progress_file).total_pages
               /\ job_id' = json_load(progress_file).job_id
               /\ \A i \in DOMAIN run_calls' : run_calls'[i] = <<>>
        /\ (CalledInStep # {} /\ NoCallYet)
            => /\ progress_file.exists
               /\ job_id # NoJob
               /\ job_id = json_load(progress_file).job_id
               /\ Fresh => (job_id \in DOMAIN jobs \/ used.delete > 0) ]_vars

\* A resumed run is about to make its first OCR call, for page index 10,
\* with a failed page taken from the checkpoint and the job of the first run.
C24_Witness ==
    /\ pc = "ocr" /\ SameFile
    /\ NoCallYet
    /\ page_idx = 10
    /\ failed_pages # <<>>
    /\ DOMAIN jobs = {1} /\ job_id = 1
    /\ json_load(progress_file).markdown_pages = markdown_pages

\* C25: when the run block has been left (the flag is false again), no
\* JobRecord is left with status processing: the job of every file a run
\* created or resumed is completed, failed or cancelled.
C25_NoJobLeftProcessing ==
    (pc = "idle" /\ ~processing) =>
        \A j \in DOMAIN jobs : jobs[j].status \in TerminalStatus

\* C26: whatever the starts, cancels and resumes, a checkpoint on disk has
\* completed_pages equal to 0 or a multiple of 10, failed_pages holds indices
\* of [0, completed_pages) without duplicates, and markdown_pages is "" at
\* every index from completed_pages on and at every index of failed_pages.
C26_CheckpointContent ==
    progress_file.exists =>
        LET ck == json_load(progress_file) IN
        /\ ck.completed_pages % 10 = 0
        /\ \A i \in 1..Len(ck.failed_pages) :
              /\ ck.failed_pages[i] \in 0..(ck.completed_pages - 1)
              /\ \A j \in 1..Len(ck.failed_pages) :
                    ck.failed_pages[i] = ck.failed_pages[j] => i = j
              /\ ck.markdown_pages[ck.failed_pages[i] + 1] = ""
        /\ \A i \in ck.completed_pages..(Len(ck.markdown_pages) - 1) :
              ck.markdown_pages[i + 1] = ""

\* The checkpoint of page 10, rewritten by a run that resumed the file from
\* page 0, holds two failed pages and a page not yet processed.
C26_Witness ==
    /\ pc = "page_loop" /\ SameFile
    /\ resume_data[1].completed_pages = 0
    /\ progress_file.exists
    /\ json_load(progress_file).completed_pages = 10
    /\ Len(json_load(progress_file).failed_pages) = 2
    /\ json_load(progress_file).total_pages = 11
    /\ \E i \in 1..10 : json_load(progress_file).markdown_pages[i] # ""

\* A step in which a run-fatal exception reaches the handler of the run
\* block: it marks the job failed, or is one of the faults of the environment.
RunFatal ==
    /\ pc # "idle"
    /\ call'.op = "fail_job" \/ used'.fault > used.fault
    /\ ~LedgerRefused

\* C27: a run-fatal exception while a file of a batch is processed ends the
\* run: the step leaves the run block with the flag false and the rest of
\* the batch dropped, makes no OCR call, creates no JobRecord and writes no
\* checkpoint; and as long as the files it left unreached stay so, no page
\* is processed, no JobRecord is created and no checkpoint is written: only
\* a press of Start or Resume begins another run.
C27_ExceptionEndsBatch ==
    [][ /\ RunFatal
            => /\ pc' = "idle" /\ ~processing'
               /\ files_to_process' = <<>>
               /\ unreached' = later_files
               /\ CalledInStep = {}
               /\ DOMAIN jobs' = DOMAIN jobs
               /\ progress_file' = progress_file
        /\ (unreached # <<>> /\ unreached' # <<>>)
            => /\ pc' = "idle"
               /\ run_calls' = <<>>
               /\ DOMAIN jobs' \subseteq DOMAIN jobs
               /\ \A j \in DOMAIN jobs' : jobs'[j] = jobs[j]
               /\ progress_file' = progress_file
        /\ (unreached # <<>> /\ unreached' = <<>>)
            => /\ pc = "idle"
               /\ used'.start > used.start \/ used'.resume > used.resume ]_vars

\* The run over the batch [a.pdf, b.pdf] was ended by an exception after
\* the pages of a.pdf were processed: a.pdf's job is failed, its checkpoint
\* is the one on disk, and b.pdf has no job.
C27_Witness ==
    /\ pc = "idle" /\ ~processing
    /\ unreached = <<"b.pdf">>
    /\ call.op = "fail_job"
    /\ DOMAIN jobs = {1}
    /\ jobs[1].filename = "a.pdf" /\ jobs[1].status = "failed"
    /\ progress_file.exists
    /\ json_load(progress_file).filename = "a.pdf"
    /\ output_dir # {}

====
